---- MODULE Spec2Model ----
(***************************************************************************)
(* A model of mcp-app-builder: the schema validator and its diagnostics,   *)
(* the type generator, the test deriver, the test runner and its matcher,  *)
(* the command handlers that drive them, and the activation of the         *)
(* extension with its configuration provider and status bar item.          *)
(*                                                                         *)
(* Text is modelled by TLA+ strings; TLC evaluates \o, Len and SubSeq on   *)
(* them, so formatting and matching are computed character by character.   *)
(* A JavaScript value is a record [t, v] whose v is always a string; an    *)
(* optional field is <<>> when absent and <<x>> when it holds x; a         *)
(* JavaScript object is the sequence of its [key, value] entries in        *)
(* Object.entries order.                                                   *)
(***************************************************************************)
EXTENDS Integers, Sequences, FiniteSets, TLC

VARIABLES
    document,    \* the text document a command works on: [fileName, content]
    result,      \* <<>> or <<ValidationResult>> of the last validateSchema command
    generated,   \* <<>> or <<outcome>> of the last generateTypes command
    tests,       \* <<>> or <<outcome>> of the last testServer command
    tool,        \* the ToolDefinition handed to the per-tool operations
    toolTypes,   \* <<>> or <<lines>> returned by generateToolTypes(tool)
    toolTests,   \* <<>> or <<cases>> returned by generateFromTools(<<tool>>)
    param,       \* the parameter handed to the per-parameter operations
    tsType,      \* <<>> or <<text>> returned by paramToTsType(param)
    sample,      \* <<>> or <<value>> returned by generateSampleValue(param)
    testCases,   \* the TestCases handed to runTests
    started,     \* how many iterations of the loop of runTests have begun
    calls,       \* per case, the call of runTest: [phase, settled, returned, steps]
    results,     \* the results array of runTests
    suiteResult, \* <<>> or <<TestSuiteResult>> returned by runTests
    expectation, \* the expectedOutput handed to validateOutput: <<>> or <<e>>
    toolResult,  \* the MCPToolResult handed to validateOutput
    validation,  \* <<>> or <<what validateOutput(toolResult, expectation) gave>>
    verdict,     \* <<>> or <<what runTest gave once its invocation gave toolResult>>
    docText,     \* the text of the document handed to findRangeForPath
    diagPath,    \* the dotted path handed to findRangeForPath
    diagRange,   \* <<>> or <<Range>> returned by findRangeForPath
    folders,     \* vscode.workspace.workspaceFolders
    files,       \* per folder, what its mcp.json holds
    config,      \* MCPConfigProvider.config: <<>> is null
    configPath,  \* MCPConfigProvider.configPath: <<>> is null
    refreshes,   \* the calls of refresh awaiting a readFile, oldest first
    statusBar,   \* the status bar item: "hidden" or "shown"
    activation,  \* "inactive", "activating" (awaiting hasMCPConfig) or "active"
    events,      \* how many watcher events have been delivered
    clientState, \* MCPTestClient.state: connected and serverInfo (<<>> is null)
    lifecycle,   \* the connect and disconnect calls made on the client, oldest first
    reply,       \* <<>> or <<how the last call on the client settled>>
    scaffoldOptions, \* <<>> or <<the ScaffoldOptions handed to scaffold>>
    templateFiles,   \* the files generateTemplate returned to scaffold
    nextFile,        \* the index of the file the loop of scaffold writes next
    scaffoldResult,  \* the ScaffoldResult scaffold is filling in
    scaffoldReturn,  \* <<>> or <<how the promise of scaffold settled>>
    panels,      \* the DashboardPanel instances constructed, oldest first
    currentPanel,\* DashboardPanel.currentPanel: <<>> is undefined
    lastCall     \* <<>> or <<what the last call on DashboardPanel did>>

docVars == <<document, result, generated, tests>>
toolVars == <<tool, toolTypes, toolTests>>
paramVars == <<param, tsType, sample>>
runVars == <<testCases, started, calls, results, suiteResult>>
matchVars == <<expectation, toolResult, validation, verdict>>
rangeVars == <<docText, diagPath, diagRange>>
extVars == <<folders, files, config, configPath, refreshes, statusBar, activation, events>>
clientVars == <<clientState, lifecycle, reply>>
scaffoldVars == <<scaffoldOptions, templateFiles, nextFile, scaffoldResult, scaffoldReturn>>
panelVars == <<panels, currentPanel, lastCall>>
vars == <<docVars, toolVars, paramVars, runVars, matchVars, rangeVars, extVars,
          clientVars, scaffoldVars, panelVars>>

\* the variables the operations on a document, a tool, a parameter, a suite,
\* an output and a path leave alone
offDoc == <<toolVars, paramVars, runVars, matchVars, rangeVars, extVars,
            clientVars, scaffoldVars, panelVars>>
offTool == <<docVars, paramVars, runVars, matchVars, rangeVars, extVars,
             clientVars, scaffoldVars, panelVars>>
offParam == <<docVars, toolVars, runVars, matchVars, rangeVars, extVars,
              clientVars, scaffoldVars, panelVars>>
offRun == <<docVars, toolVars, paramVars, matchVars, rangeVars, extVars,
            clientVars, scaffoldVars, panelVars>>
offMatch == <<docVars, toolVars, paramVars, runVars, rangeVars, extVars,
              clientVars, scaffoldVars, panelVars>>
offRange == <<docVars, toolVars, paramVars, runVars, matchVars, extVars,
              clientVars, scaffoldVars, panelVars>>
offExt == <<docVars, toolVars, paramVars, runVars, matchVars, rangeVars,
            clientVars, scaffoldVars, panelVars>>
offClient == <<docVars, toolVars, paramVars, runVars, matchVars, rangeVars, extVars,
              scaffoldVars, panelVars>>
offScaffold == <<docVars, toolVars, paramVars, runVars, matchVars, rangeVars, extVars,
                clientVars, panelVars>>
offPanel == <<docVars, toolVars, paramVars, runVars, matchVars, rangeVars, extVars,
             clientVars, scaffoldVars>>

(***************************************************************************)
(* Bounds of the model.                                                    *)
(***************************************************************************)
MaxTools == 2
MaxParams == 2
MaxExamples == 2
MaxDepth == 1

(***************************************************************************)
(* Text helpers.                                                           *)
(***************************************************************************)
\* The characters m..n of s (1-based), clamped to s as String.prototype.slice does
Slice(s, m, n) ==
    LET lo == IF m < 1 THEN 1 ELSE m
        hi == IF n > Len(s) THEN Len(s) ELSE n
    IN  IF lo > hi THEN "" ELSE SubSeq(s, lo, hi)

Char(s, i) == Slice(s, i, i)

LowerChars ==
    {"a", "b", "c", "d", "e", "f", "g", "h", "i", "j", "k", "l", "m",
     "n", "o", "p", "q", "r", "s", "t", "u", "v", "w", "x", "y", "z"}

UpperChars ==
    {"A", "B", "C", "D", "E", "F", "G", "H", "I", "J", "K", "L", "M",
     "N", "O", "P", "Q", "R", "S", "T", "U", "V", "W", "X", "Y", "Z"}

DigitChars == {"0", "1", "2", "3", "4", "5", "6", "7", "8", "9"}

AllChars(s, class) == \A i \in 1..Len(s) : Char(s, i) \in class

\* The first index >= from at which text holds needle, 0 when there is none.
IndexFrom(text, needle, from) ==
    LET hits == {i \in from..(Len(text) - Len(needle) + 1) :
                    Slice(text, i, i + Len(needle) - 1) = needle}
    IN  IF hits = {} THEN 0 ELSE CHOOSE i \in hits : \A k \in hits : i <= k

IndexOf(text, needle) == IndexFrom(text, needle, 1)

StartsWith(text, prefix) ==
    Len(text) >= Len(prefix) /\ Slice(text, 1, Len(prefix)) = prefix

EndsWith(text, suffix) ==
    Len(text) >= Len(suffix)
    /\ Slice(text, Len(text) - Len(suffix) + 1, Len(text)) = suffix

\* Array.prototype.join
RECURSIVE Join(_, _)
Join(parts, sep) ==
    IF Len(parts) = 0 THEN ""
    ELSE IF Len(parts) = 1 THEN parts[1]
    ELSE Join(SubSeq(parts, 1, Len(parts) \div 2), sep) \o sep
             \o Join(SubSeq(parts, Len(parts) \div 2 + 1, Len(parts)), sep)

\* String.prototype.split on a one-character separator set
RECURSIVE SplitOn(_, _)
SplitOn(text, seps) ==
    LET hits == {i \in 1..Len(text) : Char(text, i) \in seps}
    IN  IF hits = {} THEN <<text>>
        ELSE LET i == CHOOSE k \in hits : \A m \in hits : k <= m
             IN  <<Slice(text, 1, i - 1)>>
                     \o SplitOn(Slice(text, i + 1, Len(text)), seps)

RECURSIVE Repeat(_, _)
Repeat(s, n) == IF n = 0 THEN "" ELSE s \o Repeat(s, n - 1)

\* Array.prototype.flatMap over a sequence of sequences
RECURSIVE Flatten(_)
Flatten(seqs) == IF Len(seqs) = 0 THEN <<>> ELSE Head(seqs) \o Flatten(Tail(seqs))

\* All sequences over S of length 0..n
SeqsUpTo(S, n) == UNION {[1..k -> S] : k \in 0..n}

(***************************************************************************)
(* JavaScript values.                                                      *)
(***************************************************************************)
Undefined == [t |-> "undefined", v |-> ""]
JNull == [t |-> "null", v |-> ""]
JBool(b) == [t |-> "boolean", v |-> IF b THEN "true" ELSE "false"]
JNum(digits) == [t |-> "number", v |-> digits]
JStr(s) == [t |-> "string", v |-> s]
JEmptyArray == [t |-> "array", v |-> "[]"]
JEmptyObject == [t |-> "object", v |-> "{}"]

\* ToBoolean, as `if (x)` and `x ? a : b` apply it
Truthy(x) ==
    CASE x.t = "undefined" -> FALSE
      [] x.t = "null" -> FALSE
      [] x.t = "boolean" -> x.v = "true"
      [] x.t = "number" -> x.v # "0"
      [] x.t = "string" -> x.v # ""
      [] OTHER -> TRUE

\* obj[key] = value: an existing key keeps its place, a new key goes last
ObjSet(obj, key, value) ==
    IF \E i \in 1..Len(obj) : obj[i].key = key
    THEN [i \in 1..Len(obj) |->
             IF obj[i].key = key THEN [key |-> key, value |-> value] ELSE obj[i]]
    ELSE Append(obj, [key |-> key, value |-> value])

ObjKeys(obj) == {obj[i].key : i \in 1..Len(obj)}

ObjGet(obj, key) ==
    IF key \in ObjKeys(obj)
    THEN (CHOOSE e \in {obj[i] : i \in 1..Len(obj)} : e.key = key).value
    ELSE Undefined

(***************************************************************************)
(* The tool definition model (MCPToolParameter, MCPToolDefinition).        *)
(***************************************************************************)
MkParam(name, type, required, default, enum, items, properties) ==
    [name |-> name, type |-> type, description |-> "The " \o name,
     required |-> required, default |-> default, enum |-> enum,
     items |-> items, properties |-> properties]

Prop(key, value) == [key |-> key, value |-> value]

MkExample(description, input, output) ==
    [description |-> description, input |-> input, output |-> output]

MkTool(name, description, parameters, returns, examples) ==
    [name |-> name, description |-> description, parameters |-> parameters,
     returns |-> returns, examples |-> examples]

(***************************************************************************)
(* The zod schemas.  Each operator returns the dotted paths of the issues  *)
(* safeParse reports, one per violated check, in the order zod visits the  *)
(* keys of the schema.                                                     *)
(***************************************************************************)
ParamTypes == {"string", "number", "boolean", "array", "object"}
ReturnTypes == {"text", "json", "image", "resource", "ui"}

NameMaxLen == 64
DescriptionMinLen == 10
DescriptionMaxLen == 1000

\* /^[a-z][a-zA-Z0-9_]*$/
MatchesIdentifier(s) ==
    /\ Len(s) >= 1
    /\ Char(s, 1) \in LowerChars
    /\ AllChars(s, LowerChars \cup UpperChars \cup DigitChars \cup {"_"})

Issue(path, message) == [path |-> path, message |-> message]

RECURSIVE ParameterSchema(_, _)
ParameterSchema(p, path) ==
    (IF MatchesIdentifier(p.name) THEN <<>> ELSE <<Issue(path \o ".name", "Invalid")>>)
    \o (IF p.type \in ParamTypes THEN <<>>
        ELSE <<Issue(path \o ".type", "Invalid enum value")>>)
    \o (IF p.required.t \in {"undefined", "boolean"} THEN <<>>
        ELSE <<Issue(path \o ".required", "Expected boolean")>>)
    \o (IF p.items = <<>> THEN <<>>
        ELSE ParameterSchema(p.items[1], path \o ".items"))
    \o (IF p.properties = <<>> THEN <<>>
        ELSE Flatten([i \in 1..Len(p.properties[1]) |->
                 ParameterSchema(p.properties[1][i].value,
                                 path \o ".properties." \o p.properties[1][i].key)]))

ToolSchema(t, path) ==
    (IF MatchesIdentifier(t.name) THEN <<>> ELSE <<Issue(path \o ".name", "Invalid")>>)
    \o (IF Len(t.name) >= 1 THEN <<>>
        ELSE <<Issue(path \o ".name", "String must contain at least 1 character(s)")>>)
    \o (IF Len(t.name) <= NameMaxLen THEN <<>>
        ELSE <<Issue(path \o ".name", "String must contain at most 64 character(s)")>>)
    \o (IF Len(t.description) >= DescriptionMinLen THEN <<>>
        ELSE <<Issue(path \o ".description",
                     "String must contain at least 10 character(s)")>>)
    \o (IF Len(t.description) <= DescriptionMaxLen THEN <<>>
        ELSE <<Issue(path \o ".description",
                     "String must contain at most 1000 character(s)")>>)
    \o Flatten([j \in 1..Len(t.parameters) |->
           ParameterSchema(t.parameters[j],
                           path \o ".parameters." \o ToString(j - 1))])
    \o (IF t.returns = <<>> \/ t.returns[1].type \in ReturnTypes THEN <<>>
        ELSE <<Issue(path \o ".returns.type", "Invalid enum value")>>)

\* The parsed JSON text of a document: root.kind is "scalar" for a value that
\* is no object; toolsKind says what the key `tools` holds.
ToolsFileSchema(root) ==
    IF root.kind # "object" THEN <<Issue("", "Expected object")>>
    ELSE IF root.toolsKind = "absent" THEN <<Issue("tools", "Required")>>
    ELSE IF root.toolsKind # "array" THEN <<Issue("tools", "Expected array")>>
    ELSE Flatten([i \in 1..Len(root.tools) |->
             ToolSchema(root.tools[i], "tools." \o ToString(i - 1))])

\* zodResult.data: `required` carries its default of false at every depth
RECURSIVE ParameterData(_)
ParameterData(p) ==
    [p EXCEPT
        !.required = IF p.required = Undefined THEN JBool(FALSE) ELSE p.required,
        !.items = IF p.items = <<>> THEN <<>> ELSE <<ParameterData(p.items[1])>>,
        !.properties =
            IF p.properties = <<>> THEN <<>>
            ELSE <<[i \in 1..Len(p.properties[1]) |->
                      Prop(p.properties[1][i].key,
                           ParameterData(p.properties[1][i].value))]>>]

ToolsFileData(root) ==
    [i \in 1..Len(root.tools) |->
        [root.tools[i] EXCEPT
            !.parameters = [j \in 1..Len(root.tools[i].parameters) |->
                               ParameterData(root.tools[i].parameters[j])]]]

\* /^[a-z][a-z0-9-]*$/
MatchesServerName(s) ==
    /\ Len(s) >= 1
    /\ Char(s, 1) \in LowerChars
    /\ AllChars(s, LowerChars \cup DigitChars \cup {"-"})

\* /^\d+$/
IsDigits(s) == Len(s) >= 1 /\ AllChars(s, DigitChars)

\* /^[a-zA-Z0-9.-]+$/
IsTag(s) ==
    Len(s) >= 1 /\ AllChars(s, LowerChars \cup UpperChars \cup DigitChars \cup {".", "-"})

\* /^\d+\.\d+\.\d+(-[a-zA-Z0-9.-]+)?(\+[a-zA-Z0-9.-]+)?$/
MatchesVersion(s) ==
    LET d1 == IndexOf(s, ".")
        rest1 == Slice(s, d1 + 1, Len(s))
        d2 == IndexOf(rest1, ".")
        rest2 == Slice(rest1, d2 + 1, Len(rest1))
        cut == {i \in 1..Len(rest2) : Char(rest2, i) \notin DigitChars}
        n == IF cut = {} THEN Len(rest2)
             ELSE (CHOOSE i \in cut : \A k \in cut : i <= k) - 1
        tail == Slice(rest2, n + 1, Len(rest2))
        plus == IndexOf(tail, "+")
        pre == IF plus = 0 THEN tail ELSE Slice(tail, 1, plus - 1)
        build == IF plus = 0 THEN "" ELSE Slice(tail, plus, Len(tail))
    IN  /\ d1 > 0 /\ IsDigits(Slice(s, 1, d1 - 1))
        /\ d2 > 0 /\ IsDigits(Slice(rest1, 1, d2 - 1))
        /\ n >= 1
        /\ pre = "" \/ (Char(pre, 1) = "-" /\ IsTag(Slice(pre, 2, Len(pre))))
        /\ build = "" \/ IsTag(Slice(build, 2, Len(build)))

ConfigSchema(root) ==
    IF root.kind # "object" THEN <<Issue("", "Expected object")>>
    ELSE
        (IF root.name = <<>> THEN <<Issue("name", "Required")>>
         ELSE (IF MatchesServerName(root.name[1]) THEN <<>>
               ELSE <<Issue("name", "Invalid")>>)
              \o (IF Len(root.name[1]) >= 1 THEN <<>>
                  ELSE <<Issue("name", "String must contain at least 1 character(s)")>>)
              \o (IF Len(root.name[1]) <= NameMaxLen THEN <<>>
                  ELSE <<Issue("name", "String must contain at most 64 character(s)")>>))
        \o (IF root.version = <<>> THEN <<Issue("version", "Required")>>
            ELSE IF MatchesVersion(root.version[1]) THEN <<>>
            ELSE <<Issue("version", "Invalid")>>)
        \o (IF root.toolsKind \in {"absent", "string"} THEN <<>>
            ELSE <<Issue("tools", "Expected string")>>)

(***************************************************************************)
(* SchemaValidator.                                                        *)
(***************************************************************************)
ValidationResult(valid, errors, warnings) ==
    [valid |-> valid, errors |-> errors, warnings |-> warnings]

\* JSON.parse: throws on malformed text, else yields the root value
JSONparse(content) ==
    IF content.syntax = "malformed"
    THEN [threw |-> TRUE, message |-> "Unexpected token", root |-> <<>>]
    ELSE [threw |-> FALSE, message |-> "", root |-> <<content.root>>]

\* a catch block that records the error and leaves valid as it was
ParseFailureStillValid(res, message) ==
    [res EXCEPT !.errors = Append(@, Issue("", message))]

\* the catch block of validateConfig and validateTools
ParseFailure(res, message) ==
    [res EXCEPT !.valid = FALSE, !.errors = Append(@, Issue("", message))]

\* the branch taken when safeParse fails
StructuralFailure(res, issues) ==
    [res EXCEPT !.valid = FALSE, !.errors = @ \o issues]

validateConfig(content) ==
    LET res == ValidationResult(TRUE, <<>>, <<>>)
        parsed == JSONparse(content)
    IN  IF parsed.threw THEN ParseFailure(res, parsed.message)
        ELSE LET issues == ConfigSchema(parsed.root[1])
             IN  IF issues # <<>> THEN StructuralFailure(res, issues) ELSE res

\* the tool's name added to toolNames before it is looked up
DuplicateCheckAfterAdd(res, toolNames, t) ==
    IF t.name \in toolNames \cup {t.name}
    THEN [res EXCEPT
            !.valid = FALSE,
            !.errors = Append(@, Issue("tools." \o t.name,
                                       "Duplicate tool name: " \o t.name))]
    ELSE res

\* a duplicate reported without result.valid = false
DuplicateCheckStillValid(res, toolNames, t) ==
    IF t.name \in toolNames
    THEN [res EXCEPT
            !.errors = Append(@, Issue("tools." \o t.name,
                                       "Duplicate tool name: " \o t.name))]
    ELSE res

\* if (toolNames.has(tool.name)) { ... } on one tool of the loop
DuplicateCheck(res, toolNames, t) ==
    IF t.name \in toolNames
    THEN [res EXCEPT
            !.valid = FALSE,
            !.errors = Append(@, Issue("tools." \o t.name,
                                       "Duplicate tool name: " \o t.name))]
    ELSE res

\* if (param.required && param.default)
RequiredWithTruthyDefault(p) == Truthy(p.required) /\ Truthy(p.default)

\* if (param.required && param.default !== undefined)
RequiredWithDefault(p) == Truthy(p.required) /\ p.default # Undefined

\* for (const param of tool.parameters) { ... }
ParameterWarnings(t) ==
    LET hits == SelectSeq(t.parameters, RequiredWithDefault)
    IN  [k \in 1..Len(hits) |->
            Issue("tools." \o t.name \o ".parameters." \o hits[k].name,
                  "Required parameter has a default value")]

\* for (const tool of tools) { ... }, from the i-th tool on
RECURSIVE SemanticPass(_, _, _, _)
SemanticPass(tools, i, toolNames, res) ==
    IF i > Len(tools) THEN res
    ELSE LET checked == DuplicateCheck(res, toolNames, tools[i])
             warned == [checked EXCEPT
                           !.warnings = @ \o ParameterWarnings(tools[i])]
         IN  SemanticPass(tools, i + 1, toolNames \cup {tools[i].name}, warned)

\* the semantic pass run on the parsed document whatever safeParse reports
validateToolsSemanticAlways(content) ==
    LET res == ValidationResult(TRUE, <<>>, <<>>)
        parsed == JSONparse(content)
    IN  IF parsed.threw THEN ParseFailure(res, parsed.message)
        ELSE LET issues == ToolsFileSchema(parsed.root[1])
                 failed == IF issues # <<>> THEN StructuralFailure(res, issues) ELSE res
             IN  IF parsed.root[1].kind = "object" /\ parsed.root[1].toolsKind = "array"
                 THEN SemanticPass(ToolsFileData(parsed.root[1]), 1, {}, failed)
                 ELSE failed

validateTools(content) ==
    LET res == ValidationResult(TRUE, <<>>, <<>>)
        parsed == JSONparse(content)
    IN  IF parsed.threw THEN ParseFailure(res, parsed.message)
        ELSE LET issues == ToolsFileSchema(parsed.root[1])
             IN  IF issues # <<>> THEN StructuralFailure(res, issues)
                 ELSE SemanticPass(ToolsFileData(parsed.root[1]), 1, {}, res)

validateDocument(doc) ==
    IF EndsWith(doc.fileName, "mcp.json") THEN validateConfig(doc.content)
    ELSE IF EndsWith(doc.fileName, "mcp-tools.json") THEN validateTools(doc.content)
    ELSE ValidationResult(TRUE, <<>>, <<>>)

(***************************************************************************)
(* TypeGenerator.                                                          *)
(***************************************************************************)
ToUpperCase(c) ==
    LET i == IF c = "" THEN 0 ELSE IndexOf("abcdefghijklmnopqrstuvwxyz", c)
    IN  IF i = 0 THEN c ELSE Char("ABCDEFGHIJKLMNOPQRSTUVWXYZ", i)

toPascalCase(str) ==
    LET words == SplitOn(str, {"-", "_"})
    IN  Join([k \in 1..Len(words) |->
                 ToUpperCase(Char(words[k], 1)) \o Slice(words[k], 2, Len(words[k]))],
             "")

Quoted(e) == "'" \o e \o "'"

\* if (param.enum && param.enum.length > 0)
HasEnum(p) == p.enum # <<>> /\ Len(p.enum[1]) > 0

EnumUnion(p) == Join([k \in 1..Len(p.enum[1]) |-> Quoted(p.enum[1][k])], " | ")

RECURSIVE BaseTsType(_)
\* the enum looked at for scalar types only
paramToTsTypeScalarEnum(p) ==
    IF p.type \notin {"array", "object"} /\ HasEnum(p) THEN EnumUnion(p)
    ELSE BaseTsType(p)

paramToTsType(p) == IF HasEnum(p) THEN EnumUnion(p) ELSE BaseTsType(p)

\* the switch of paramToTsType
BaseTsType(p) ==
    CASE p.type = "string" -> "string"
      [] p.type = "number" -> "number"
      [] p.type = "boolean" -> "boolean"
      [] p.type = "array" ->
            IF p.items # <<>>
            THEN "Array<" \o paramToTsType(p.items[1]) \o ">"
            ELSE "unknown[]"
      [] p.type = "object" ->
            IF p.properties # <<>>
            THEN "{ "
                 \o Join([k \in 1..Len(p.properties[1]) |->
                            p.properties[1][k].key \o ": "
                                \o paramToTsType(p.properties[1][k].value)],
                         "; ")
                 \o " }"
            ELSE "Record<string, unknown>"
      [] OTHER -> "unknown"

\* const optional = param.required ? '?' : ''
OptionalMarkInverted(p) == IF Truthy(p.required) THEN "?" ELSE ""

\* const optional = param.required ? '' : '?'
OptionalMark(p) == IF Truthy(p.required) THEN "" ELSE "?"

FieldLines(p) ==
    << "    /** " \o p.description \o " */",
       "    " \o p.name \o OptionalMark(p) \o ": " \o paramToTsType(p) \o ";" >>

generateToolTypes(t) ==
    LET typeName == toPascalCase(t.name)
    IN  << "/**", " * " \o t.description, " */",
           "export interface " \o typeName \o "Input {" >>
        \o Flatten([j \in 1..Len(t.parameters) |-> FieldLines(t.parameters[j])])
        \o << "}" >>
        \o (IF t.returns # <<>>
            THEN << "", "export type " \o typeName \o "Output = MCPToolResult;" >>
            ELSE <<>>)

ToolNameUnion(tools) ==
    "export type ToolName = "
        \o Join([i \in 1..Len(tools) |-> Quoted(tools[i].name)], " | ") \o ";"

\* the map entry named after the raw tool name
ToolInputMapEntryRawName(t) ==
    "    '" \o t.name \o "': " \o t.name \o "Input;"

ToolInputMapEntry(t) ==
    "    '" \o t.name \o "': " \o toPascalCase(t.name) \o "Input;"

generateUnionTypes(tools) ==
    << "/** All available tool names */", ToolNameUnion(tools), "",
       "/** Map of tool names to their input types */",
       "export interface ToolInputMap {" >>
    \o [i \in 1..Len(tools) |-> ToolInputMapEntry(tools[i])]
    \o << "}", "" >>

HandlerLines(t) ==
    << "    /** " \o t.description \o " */",
       "    " \o t.name \o "(input: " \o toPascalCase(t.name)
           \o "Input): Promise<MCPToolResult>;" >>

generateHandlerInterface(tools) ==
    << "/** Interface for implementing tool handlers */",
       "export interface ToolHandlers {" >>
    \o Flatten([i \in 1..Len(tools) |-> HandlerLines(tools[i])])
    \o << "}", "",
          "/** Type-safe tool call function */",
          "export function createToolCaller(handlers: ToolHandlers) {",
          "    return async function callTool<T extends ToolName>(",
          "        name: T,",
          "        input: ToolInputMap[T]",
          "    ): Promise<MCPToolResult> {",
          "        const handler = handlers[name] as (input: ToolInputMap[T]) => Promise<MCPToolResult>;",
          "        return handler(input);",
          "    };",
          "}" >>

ToolCount(tools) == Len(tools)

generate(tools) ==
    LET lines ==
            << "/**",
               " * Auto-generated types from MCP tool definitions",
               " * Do not edit manually - regenerate using \"MCP: Generate Types\"",
               " */",
               "",
               "import type { MCPToolResult } from '@mcp-app-builder/types';",
               "" >>
            \o Flatten([i \in 1..Len(tools) |-> generateToolTypes(tools[i]) \o <<"">>])
            \o generateUnionTypes(tools)
            \o generateHandlerInterface(tools)
    IN  [content |-> Join(lines, "\n"), toolCount |-> ToolCount(tools)]

\* parseToolsFile: JSON.parse, then the `tools` array is required
parseToolsFile(content) ==
    LET parsed == JSONparse(content)
    IN  IF parsed.threw THEN [threw |-> TRUE, tools |-> <<>>]
        ELSE IF parsed.root[1].kind # "object" \/ parsed.root[1].toolsKind # "array"
        THEN [threw |-> TRUE, tools |-> <<>>]
        ELSE [threw |-> FALSE, tools |-> parsed.root[1].tools]

(***************************************************************************)
(* TestGenerator.                                                          *)
(***************************************************************************)
\* if (param.default)
HasTruthyDefault(p) == Truthy(p.default)

\* if (param.default !== undefined)
HasDefault(p) == p.default # Undefined

\* the switch of generateSampleValue
TypeSample(p) ==
    CASE p.type = "string" -> JStr("sample_" \o p.name)
      [] p.type = "number" -> JNum("42")
      [] p.type = "boolean" -> JBool(TRUE)
      [] p.type = "array" -> JEmptyArray
      [] p.type = "object" -> JEmptyObject
      [] OTHER -> JNull

generateSampleValue(p) ==
    IF HasDefault(p) THEN p.default
    ELSE IF HasEnum(p) THEN JStr(p.enum[1][1])
    ELSE TypeSample(p)

RECURSIVE SampleInputFrom(_, _, _)
SampleInputFrom(params, j, input) ==
    IF j > Len(params) THEN input
    ELSE SampleInputFrom(params, j + 1,
             ObjSet(input, params[j].name, generateSampleValue(params[j])))

generateSampleInput(params) == SampleInputFrom(params, 1, <<>>)

IsRequired(p) == Truthy(p.required)

\* the required-only input built without the `if (param.required)` test
generateRequiredOnlyInputUnfiltered(params) == SampleInputFrom(params, 1, <<>>)

generateRequiredOnlyInput(params) ==
    SampleInputFrom(SelectSeq(params, IsRequired), 1, <<>>)

TestCase(id, name, toolName, input, expectedOutput) ==
    [id |-> id, name |-> name, tool |-> toolName, input |-> input,
     expectedOutput |-> expectedOutput]

ExpectText == <<[type |-> "text"]>>

BasicCase(t) ==
    TestCase(t.name \o "-basic", t.name \o ": Basic invocation", t.name,
             generateSampleInput(t.parameters), ExpectText)

RequiredCases(t) ==
    IF Len(SelectSeq(t.parameters, IsRequired)) > 0
    THEN << TestCase(t.name \o "-required-params", t.name \o ": Required parameters",
                     t.name, generateRequiredOnlyInput(t.parameters), ExpectText) >>
    ELSE <<>>

\* `${tool.name}-example` without the index
ExampleIdUnnumbered(name, i) == name \o "-example"

\* `${tool.name}-example-${i}` with the one-based index
ExampleIdOneBased(name, i) == name \o "-example-" \o ToString(i + 1)

\* id: `${tool.name}-example-${i}`, i the zero-based loop index
ExampleId(name, i) == name \o "-example-" \o ToString(i)

\* an example case that expects the content type text
ExampleExpectationText(example) == <<[type |-> "text"]>>

\* the object pushed for an example has no expectedOutput key
ExampleExpectation(example) == <<>>

ExampleCases(t) ==
    IF t.examples = <<>> THEN <<>>
    ELSE [k \in 1..Len(t.examples[1]) |->
             TestCase(ExampleId(t.name, k - 1),
                      t.name \o ": Example " \o ToString(k)
                          \o (IF t.examples[1][k].description # <<>>
                                 /\ t.examples[1][k].description[1] # ""
                              THEN " - " \o t.examples[1][k].description[1]
                              ELSE ""),
                      t.name, t.examples[1][k].input,
                      ExampleExpectation(t.examples[1][k]))]

ToolCases(t) == <<BasicCase(t)>> \o RequiredCases(t) \o ExampleCases(t)

generateFromTools(tools) == Flatten([i \in 1..Len(tools) |-> ToolCases(tools[i])])

(***************************************************************************)
(* TestRunner.  A TestCase's expectedOutput is <<>> or <<e>>, e a record   *)
(* with the keys the object has (type, contains, matches, validator).  A   *)
(* RegExp is the record of its source, a literal with an optional leading  *)
(* ^; a validator is the name of one of three predicates.  The duration    *)
(* fields are clock readings and are left out.                             *)
(***************************************************************************)
JBigInt(digits) == [t |-> "bigint", v |-> digits]

\* the quoted form JSON.stringify gives a string
JSONquote(s) ==
    "\"" \o Join([i \in 1..Len(s) |->
                     IF Char(s, i) = "\"" THEN "\\\""
                     ELSE IF Char(s, i) = "\\" THEN "\\\\"
                     ELSE Char(s, i)], "") \o "\""

\* JSON.stringify throws a TypeError on a BigInt
Serializable(obj) == \A i \in 1..Len(obj) : obj[i].value.t # "bigint"

\* JSON.stringify of a value other than undefined
JSONvalue(x) == IF x.t = "string" THEN JSONquote(x.v) ELSE x.v

IsDefinedEntry(e) == e.value # Undefined

\* JSON.stringify of an object: a key holding undefined is left out
JSONstringify(obj) ==
    LET kept == SelectSeq(obj, IsDefinedEntry)
    IN  "{" \o Join([i \in 1..Len(kept) |->
                        JSONquote(kept[i].key) \o ":" \o JSONvalue(kept[i].value)], ",")
            \o "}"

TextPart(text) == [type |-> "text", text |-> text]
ToolResult(content) == [content |-> content]

\* what the promise of simulateToolCall settles to once its timer has fired
simulateToolCall(toolName, input) ==
    IF ~Serializable(input)
    THEN [rejected |-> TRUE, reason |-> "Do not know how to serialize a BigInt",
          value |-> ToolResult(<<>>)]
    ELSE [rejected |-> FALSE, reason |-> "",
          value |-> ToolResult(<<TextPart("Mock response from " \o toolName
                                              \o " with input: " \o JSONstringify(input))>>)]

RegExp(source) == [source |-> source]

\* RegExp.prototype.test without flags
RegExpTest(re, text) ==
    IF StartsWith(re.source, "^")
    THEN StartsWith(text, Slice(re.source, 2, Len(re.source)))
    ELSE IndexOf(text, re.source) > 0 \/ re.source = ""

\* `${expected.matches}`
RegExpToString(re) == "/" \o re.source \o "/"

IsTextPart(c) == c.type = "text"

\* the text items joined with a blank
TextContentBlankJoined(res) ==
    LET parts == SelectSeq(res.content, IsTextPart)
    IN  Join([i \in 1..Len(parts) |-> parts[i].text], " ")

\* res.content.filter(text).map(c => c.text).join('\n')
TextContent(res) ==
    LET parts == SelectSeq(res.content, IsTextPart)
    IN  Join([i \in 1..Len(parts) |-> parts[i].text], "\n")

\* expected.validator(res): [threw, message, value]
ApplyValidator(v, res) ==
    CASE v = "nonEmpty" ->
             [threw |-> FALSE, message |-> "", value |-> Len(res.content) > 0]
      [] v = "isError" ->
             [threw |-> FALSE, message |-> "",
              value |-> "isError" \in DOMAIN res /\ res.isError]
      [] OTHER -> [threw |-> TRUE, message |-> "validator failed", value |-> FALSE]

\* the custom predicate is asked first
StepOrderPredicateFirst == <<"validator", "type", "contains", "matches">>

\* the order of the four `if (expected.<key>)` blocks of validateOutput
StepOrder == <<"type", "contains", "matches", "validator">>

\* if (expected.<key>)
StepPresent(e, step) ==
    /\ step \in DOMAIN e
    /\ step \in {"type", "contains"} => e[step] # ""

\* the test of one block: [threw, message, holds]
StepOutcome(res, e, step) ==
    CASE step = "type" ->
             [threw |-> FALSE, message |-> "",
              holds |-> \E i \in 1..Len(res.content) : res.content[i].type = e.type]
      [] step = "contains" ->
             [threw |-> FALSE, message |-> "",
              holds |-> IndexOf(TextContent(res), e.contains) > 0]
      [] step = "matches" ->
             [threw |-> FALSE, message |-> "",
              holds |-> RegExpTest(e.matches, TextContent(res))]
      [] OTHER ->
             LET r == ApplyValidator(e.validator, res)
             IN  [threw |-> r.threw, message |-> r.message, holds |-> r.value]

\* the error of the early return of one block
StepError(e, step) ==
    CASE step = "type" -> "Expected content type \"" \o e.type \o "\" not found"
      [] step = "contains" -> "Output does not contain \"" \o e.contains \o "\""
      [] step = "matches" -> "Output does not match pattern " \o RegExpToString(e.matches)
      [] OTHER -> "Custom validator returned false"

\* what validateOutput gives: a throw, or { passed, error? }; steps lists the
\* blocks whose test was evaluated
Validation(threw, message, passed, error, steps) ==
    [threw |-> threw, message |-> message, passed |-> passed, error |-> error,
     steps |-> steps]

RECURSIVE ValidateFrom(_, _, _, _)
ValidateFrom(res, e, k, steps) ==
    IF k > Len(StepOrder) THEN Validation(FALSE, "", TRUE, <<>>, steps)
    ELSE IF ~StepPresent(e, StepOrder[k]) THEN ValidateFrom(res, e, k + 1, steps)
    ELSE LET step == StepOrder[k]
             out == StepOutcome(res, e, step)
             seen == Append(steps, step)
         IN  IF out.threw THEN Validation(TRUE, out.message, FALSE, <<>>, seen)
             ELSE IF ~out.holds
             THEN Validation(FALSE, "", FALSE, <<StepError(e, step)>>, seen)
             ELSE ValidateFrom(res, e, k + 1, seen)

validateOutput(res, expected) ==
    IF expected = <<>> THEN Validation(FALSE, "", TRUE, <<>>, <<>>)
    ELSE ValidateFrom(res, expected[1], 1, <<>>)

TestResult(testId, passed, error, output) ==
    [testId |-> testId, passed |-> passed, error |-> error, output |-> output]

\* a rejected invocation recorded as a pass that keeps going
InvocationFailurePasses(test, reason) == TestResult(test.id, TRUE, <<>>, <<>>)

\* the catch block of runTest
InvocationFailure(test, reason) == TestResult(test.id, FALSE, <<reason>>, <<>>)

\* runTest after `await this.simulateToolCall(...)`: the TestResult it returns
\* and the validateOutput blocks it evaluated
\* a case without expectedOutput held to the content type text
runTestExpectsText(test, settled) ==
    LET checked == validateOutput(settled.value,
                                  IF test.expectedOutput # <<>> THEN test.expectedOutput
                                  ELSE <<[type |-> "text"]>>)
    IN  [result |-> TestResult(test.id, checked.passed, checked.error, <<settled.value>>),
         steps |-> checked.steps]

runTest(test, settled) ==
    IF settled.rejected
    THEN [result |-> InvocationFailure(test, settled.reason), steps |-> <<>>]
    ELSE LET checked == IF test.expectedOutput # <<>>
                        THEN validateOutput(settled.value, test.expectedOutput)
                        ELSE Validation(FALSE, "", TRUE, <<>>, <<>>)
         IN  IF checked.threw
             THEN [result |-> InvocationFailure(test, checked.message),
                   steps |-> checked.steps]
             ELSE [result |-> TestResult(test.id, checked.passed, checked.error,
                                         <<settled.value>>),
                   steps |-> checked.steps]

IsPassed(r) == r.passed
IsFailed(r) == ~r.passed

\* failures counted as skipped
SuiteResultSkipsFailures(rs) ==
    [passed |-> Len(SelectSeq(rs, IsPassed)), failed |-> 0,
     skipped |-> Len(SelectSeq(rs, IsFailed)), results |-> rs]

SuiteResult(rs) ==
    [passed |-> Len(SelectSeq(rs, IsPassed)),
     failed |-> Len(SelectSeq(rs, IsFailed)),
     skipped |-> 0, results |-> rs]

\* what runTests returns once every case has been awaited in turn
runTests(cs) ==
    SuiteResult([i \in 1..Len(cs) |->
                    runTest(cs[i], simulateToolCall(cs[i].tool, cs[i].input)).result])

(***************************************************************************)
(* The documents, tools and parameters the operations are run on.          *)
(***************************************************************************)
NoEnum == <<>>
Modes == << <<"fast", "slow">> >>

PQuery == MkParam("query", "string", JBool(TRUE), Undefined, NoEnum, <<>>, <<>>)
PLimit == MkParam("limit", "number", JBool(TRUE), JNum("10"), NoEnum, <<>>, <<>>)
PFlag == MkParam("flag", "boolean", Undefined, JBool(FALSE), NoEnum, <<>>, <<>>)
PFlagRequired == MkParam("flag", "boolean", JBool(TRUE), JBool(FALSE), NoEnum, <<>>, <<>>)
PMode == MkParam("mode", "string", JBool(FALSE), Undefined, Modes, <<>>, <<>>)
PModeNull == MkParam("mode", "string", JBool(TRUE), JNull, Modes, <<>>, <<>>)
PDepth == MkParam("depth", "number", JBool(TRUE), JNum("1"), NoEnum, <<>>, <<>>)
POptions ==
    MkParam("options", "object", JBool(FALSE), Undefined, NoEnum, <<>>,
            << <<Prop("depth", PDepth)>> >>)
PTags == MkParam("tags", "array", Undefined, Undefined, NoEnum, <<PMode>>, <<>>)
PBadType == MkParam("count", "integer", Undefined, Undefined, NoEnum, <<>>, <<>>)

TextReturn == <<[type |-> "text", description |-> "The matches"]>>

ExampleCats ==
    MkExample(<<"finds cats">>, <<Prop("query", JStr("cats"))>>, JStr("3 matches"))
ExampleEmpty == MkExample(<<>>, <<>>, JNull)

ToolPool ==
    { MkTool("search", "Searches the index", <<>>, <<>>, <<>>),
      MkTool("search", "Searches the archive", <<PQuery, PLimit>>, TextReturn,
             << <<ExampleCats>> >>),
      MkTool("a_b", "Joins a with b", <<PLimit, PFlagRequired>>, TextReturn, <<>>),
      MkTool("aB", "Applies a to B", <<PFlag, PMode>>, <<>>, << <<>> >>),
      MkTool("fetch", "Fetches a page", <<PModeNull, POptions>>, <<>>,
             << <<ExampleEmpty, ExampleCats>> >>),
      MkTool("fetch", "Fetches a file", <<PLimit, PTags, PLimit>>, <<>>, <<>>),
      MkTool("Search", "Searches the index", <<PQuery>>, <<>>, <<>>),
      MkTool("", "Searches the index", <<>>, <<>>, <<>>),
      MkTool("search", "Too short", <<PLimit>>, <<>>, <<>>),
      MkTool("lookup", "Looks a key up", <<PBadType>>, <<>>, <<>>),
      MkTool("x" \o Repeat("y", NameMaxLen), "Has a long name", <<>>, <<>>, <<>>) }

Root(kind, toolsKind, tools, name, version) ==
    [kind |-> kind, toolsKind |-> toolsKind, tools |-> tools,
     name |-> name, version |-> version]

ToolsRoots == {Root("object", "array", ts, <<>>, <<>>) : ts \in SeqsUpTo(ToolPool, MaxTools)}

ConfigRoots ==
    {Root("object", k, <<>>, n, v) :
        k \in {"absent", "string"},
        n \in {<<>>, <<"my-server">>, <<"My_Server">>},
        v \in {<<>>, <<"1.0.0">>, <<"1.0">>, <<"1.2.3-rc.1+build.5">>, <<"1.2.3+">>}}

ScalarRoots == {Root(k, "absent", <<>>, <<>>, <<>>) : k \in {"null", "number"}}

Contents ==
    {[syntax |-> "malformed", root |-> Root("null", "absent", <<>>, <<>>, <<>>)]}
    \cup {[syntax |-> "json", root |-> r] :
             r \in ToolsRoots \cup ConfigRoots \cup ScalarRoots}

\* a tools root seen under another file name
StrayRoots ==
    {Root("object", "array", ts, <<>>, <<>>) : ts \in SeqsUpTo(ToolPool, 1)}

OtherContents ==
    {c \in Contents : c.syntax = "malformed" \/ c.root \notin ToolsRoots \ StrayRoots}

Documents ==
    {[fileName |-> "/ws/mcp-tools.json", content |-> c] : c \in Contents}
    \cup {[fileName |-> f, content |-> c] :
             f \in {"/ws/mcp.json", "/ws/notes.json"}, c \in OtherContents}

\* the tools handed to generateToolTypes and generateFromTools one at a time
ToolParamPool ==
    {MkParam(n, "string", r, Undefined, NoEnum, <<>>, <<>>) :
        n \in {"p", "q"}, r \in {Undefined, JBool(TRUE), JBool(FALSE)}}
    \cup {PLimit}

ExamplePool == {ExampleCats, ExampleEmpty}

ToolInputs ==
    {MkTool("search", "Searches the index", ps, rt, ex) :
        ps \in SeqsUpTo(ToolParamPool, MaxParams),
        rt \in {<<>>, TextReturn},
        ex \in {<<>>} \cup {<<e>> : e \in SeqsUpTo(ExamplePool, MaxExamples)}}

\* the parameters handed to paramToTsType and generateSampleValue
TypeNames == ParamTypes \cup {"integer"}
EnumChoices == {NoEnum, << <<>> >>, Modes}
DefaultChoices == {Undefined, JNull, JBool(FALSE), JNum("0"), JStr(""), JStr("x")}

LeafParams ==
    {MkParam(n, t, Undefined, d, e, <<>>, <<>>) :
        n \in {"p", "mode"}, t \in TypeNames, d \in DefaultChoices, e \in EnumChoices}

PlainParams ==
    {MkParam("e", t, Undefined, Undefined, e, <<>>, <<>>) :
        t \in TypeNames, e \in EnumChoices}

TwoKeyMaps ==
    {<<Prop("b", c1), Prop("a", c2)>> : c1, c2 \in {PMode, PBadType}}

RECURSIVE NestedParams(_)
\* the <<items, properties>> pairs of a parameter with children of depth <= d - 1
Shapes(d) ==
    {<< <<c>>, <<>> >> : c \in NestedParams(d - 1)}
    \cup {<< <<>>, << <<Prop("k", c)>> >> >> : c \in NestedParams(d - 1)}
    \cup {<< <<>>, <<m>> >> : m \in TwoKeyMaps \cup {<<>>}}
    \cup {<< <<PMode>>, << <<Prop("k", PMode)>> >> >>}

NestedParams(d) ==
    IF d = 0 THEN PlainParams
    ELSE PlainParams
         \cup {MkParam("e", t, Undefined, Undefined, e, sh[1], sh[2]) :
                  t \in {"array", "object"}, e \in EnumChoices, sh \in Shapes(d)}

ParamInputs ==
    LeafParams
    \cup {MkParam("p", t, Undefined, Undefined, e, sh[1], sh[2]) :
             t \in {"array", "object", "string"}, e \in EnumChoices,
             sh \in Shapes(MaxDepth)}

IdleDocument ==
    [fileName |-> "", content |-> [syntax |-> "json", root |-> Root("null", "absent", <<>>, <<>>, <<>>)]]
IdleTool == MkTool("", "", <<>>, <<>>, <<>>)
IdleParam == MkParam("", "", Undefined, Undefined, NoEnum, <<>>, <<>>)

DocIdle == document = IdleDocument /\ result = <<>> /\ generated = <<>> /\ tests = <<>>
ToolIdle == tool = IdleTool /\ toolTypes = <<>> /\ toolTests = <<>>
ParamIdle == param = IdleParam /\ tsType = <<>> /\ sample = <<>>
RunIdle ==
    /\ testCases = <<>> /\ started = 0 /\ calls = <<>> /\ results = <<>>
    /\ suiteResult = <<>>
MatchIdle ==
    /\ expectation = <<>> /\ toolResult = ToolResult(<<>>) /\ validation = <<>>
    /\ verdict = <<>>
RangeIdle == docText = "" /\ diagPath = "" /\ diagRange = <<>>
ExtIdle ==
    /\ folders = <<>> /\ files = <<>> /\ config = <<>> /\ configPath = <<>>
    /\ refreshes = <<>> /\ statusBar = "hidden" /\ activation = "inactive"
    /\ events = 0
ClientIdle ==
    /\ clientState = [connected |-> FALSE, serverInfo |-> <<>>, lastError |-> <<>>]
    /\ lifecycle = <<>> /\ reply = <<>>
ScaffoldIdle ==
    /\ scaffoldOptions = <<>> /\ templateFiles = <<>> /\ nextFile = 0
    /\ scaffoldResult = <<>> /\ scaffoldReturn = <<>>
PanelIdle == panels = <<>> /\ currentPanel = <<>> /\ lastCall = <<>>

(***************************************************************************)
(* The command handlers, run on the document of the workspace.             *)
(***************************************************************************)
IsToolsFile(doc) == EndsWith(doc.fileName, "/mcp-tools.json")

Outcome(status, source, content, toolCount, cases) ==
    [status |-> status, source |-> source, content |-> content,
     toolCount |-> toolCount, cases |-> cases]

\* mcp-app-builder.validateSchema
ValidateSchemaCmd ==
    /\ result' = <<validateDocument(document)>>
    /\ UNCHANGED <<document, generated, tests, offDoc>>

\* mcp-app-builder.generateTypes: what the handler does with the tools file
GenerateTypesOutcome(doc) ==
    IF ~IsToolsFile(doc) THEN Outcome("no-tools-file", <<>>, "", 0, <<>>)
    ELSE LET toolsFile == parseToolsFile(doc.content)
         IN  IF toolsFile.threw THEN Outcome("failed", <<>>, "", 0, <<>>)
             ELSE LET out == generate(toolsFile.tools)
                  IN  Outcome("written", <<doc.content>>, out.content, out.toolCount, <<>>)

GenerateTypesCmd ==
    /\ generated' = <<GenerateTypesOutcome(document)>>
    /\ UNCHANGED <<document, result, tests, offDoc>>

TestOutcome(status, source, cs, suite) ==
    [status |-> status, source |-> source, content |-> "", toolCount |-> 0,
     cases |-> cs, suite |-> suite]

\* mcp-app-builder.testServer: what the handler does with the tools file
TestServerOutcome(doc) ==
    IF ~IsToolsFile(doc) THEN TestOutcome("no-tools-file", <<>>, <<>>, <<>>)
    ELSE LET parsed == JSONparse(doc.content)
         IN  IF parsed.threw \/ parsed.root[1].kind = "null"
                 \/ (parsed.root[1].kind = "object" /\ parsed.root[1].toolsKind = "string")
             THEN TestOutcome("failed", <<>>, <<>>, <<>>)
             ELSE LET tools == IF parsed.root[1].kind = "object"
                                  /\ parsed.root[1].toolsKind = "array"
                               THEN parsed.root[1].tools ELSE <<>>
                      cases == generateFromTools(tools)
                  IN  IF Len(cases) = 0 THEN TestOutcome("no-tools", <<>>, <<>>, <<>>)
                      ELSE TestOutcome("ran", <<doc.content>>, cases, <<runTests(cases)>>)

TestServerCmd ==
    /\ tests' = <<TestServerOutcome(document)>>
    /\ UNCHANGED <<document, result, generated, offDoc>>

Init ==
    /\ document \in Documents
    /\ result = <<>> /\ generated = <<>> /\ tests = <<>>
    /\ ToolIdle /\ ParamIdle /\ RunIdle /\ MatchIdle /\ RangeIdle /\ ExtIdle
    /\ ClientIdle /\ ScaffoldIdle /\ PanelIdle

Next == ValidateSchemaCmd \/ GenerateTypesCmd \/ TestServerCmd

Spec == Init /\ [][Next]_vars

(***************************************************************************)
(* The per-tool operations.                                                *)
(***************************************************************************)
GenerateToolTypes ==
    /\ toolTypes' = <<generateToolTypes(tool)>>
    /\ UNCHANGED <<tool, toolTests, offTool>>

GenerateFromTools ==
    /\ toolTests' = <<generateFromTools(<<tool>>)>>
    /\ UNCHANGED <<tool, toolTypes, offTool>>

InitTool ==
    /\ tool \in ToolInputs
    /\ toolTypes = <<>> /\ toolTests = <<>>
    /\ DocIdle /\ ParamIdle /\ RunIdle /\ MatchIdle /\ RangeIdle /\ ExtIdle
    /\ ClientIdle /\ ScaffoldIdle /\ PanelIdle

NextTool == GenerateToolTypes \/ GenerateFromTools

SpecTool == InitTool /\ [][NextTool]_vars

(***************************************************************************)
(* The per-parameter operations.                                           *)
(***************************************************************************)
ParamToTsType ==
    /\ tsType' = <<paramToTsType(param)>>
    /\ UNCHANGED <<param, sample, offParam>>

GenerateSampleValue ==
    /\ sample' = <<generateSampleValue(param)>>
    /\ UNCHANGED <<param, tsType, offParam>>

InitParam ==
    /\ param \in ParamInputs
    /\ tsType = <<>> /\ sample = <<>>
    /\ DocIdle /\ ToolIdle /\ RunIdle /\ MatchIdle /\ RangeIdle /\ ExtIdle
    /\ ClientIdle /\ ScaffoldIdle /\ PanelIdle

NextParam == ParamToTsType \/ GenerateSampleValue

SpecParam == InitParam /\ [][NextParam]_vars

(***************************************************************************)
(* One run of TestRunner.runTests.  A call of runTest is waiting until the *)
(* loop reaches its case, invoking while the timer of simulateToolCall is  *)
(* pending, settled once the promise has settled, returned once runTest    *)
(* has built its TestResult and recorded once runTests has pushed it.      *)
(***************************************************************************)
MaxCases == 3

Call(phase, settled, returned, steps) ==
    [phase |-> phase, settled |-> settled, returned |-> returned, steps |-> steps]

\* the cases generateFromTools derives from a tool with an example
DerivedCases ==
    generateFromTools(<<MkTool("search", "Searches the archive", <<PQuery, PLimit>>,
                               TextReturn, << <<ExampleCats>> >>)>>)

CasePool ==
    {DerivedCases[i] : i \in 1..Len(DerivedCases)}
    \cup { TestCase("big-basic", "big: Basic invocation", "big",
                    <<Prop("size", JBigInt("1"))>>, ExpectText),
           TestCase("page-json", "page: JSON content", "page", <<>>,
                    <<[type |-> "json", validator |-> "nonEmpty"]>>),
           TestCase("page-miss", "page: Substring", "page",
                    <<Prop("q", JStr("a\"b")), Prop("skip", Undefined)>>,
                    <<[type |-> "text", contains |-> "a\"b", matches |-> RegExp("^page"),
                       validator |-> "throws"]>>),
           TestCase("page-throws", "page: Throwing validator", "page", <<>>,
                    <<[type |-> "text", validator |-> "throws"]>>) }

SuiteInputs == SeqsUpTo(CasePool, MaxCases)

\* the loop goes on to the next case without awaiting runTest
NotAwaited == TRUE

\* `const result = await this.runTest(test); results.push(result);` ends an
\* iteration: the next one begins once the result of this one is pushed
AwaitedRunTest == Len(results) = started

\* results.unshift(result)
PushFirst(rs, r) == <<r>> \o rs

\* results.push(result)
Push(rs, r) == Append(rs, r)

\* an iteration of the loop begins: runTest calls simulateToolCall, which
\* sets its timer
StartInvocation ==
    /\ suiteResult = <<>>
    /\ started < Len(testCases)
    /\ AwaitedRunTest
    /\ started' = started + 1
    /\ calls' = [calls EXCEPT ![started + 1].phase = "invoking"]
    /\ UNCHANGED <<testCases, results, suiteResult, offRun>>

\* the timer fires and the promise of simulateToolCall settles
SettleInvocation ==
    \E i \in 1..Len(testCases) :
        /\ calls[i].phase = "invoking"
        /\ calls' = [calls EXCEPT
                        ![i].phase = "settled",
                        ![i].settled =
                            <<simulateToolCall(testCases[i].tool, testCases[i].input)>>]
        /\ UNCHANGED <<testCases, started, results, suiteResult, offRun>>

\* runTest resumes after its await and returns its TestResult
ReturnResult ==
    \E i \in 1..Len(testCases) :
        /\ calls[i].phase = "settled"
        /\ LET out == runTest(testCases[i], calls[i].settled[1])
           IN  calls' = [calls EXCEPT ![i].phase = "returned",
                                      ![i].returned = <<out.result>>,
                                      ![i].steps = out.steps]
        /\ UNCHANGED <<testCases, started, results, suiteResult, offRun>>

\* runTests resumes after its await and pushes the result
PushResult ==
    \E i \in 1..Len(testCases) :
        /\ calls[i].phase = "returned"
        /\ calls' = [calls EXCEPT ![i].phase = "recorded"]
        /\ results' = Push(results, calls[i].returned[1])
        /\ UNCHANGED <<testCases, started, suiteResult, offRun>>

\* the loop is over: runTests builds and returns the TestSuiteResult
FinishSuite ==
    /\ suiteResult = <<>>
    /\ started = Len(testCases)
    /\ AwaitedRunTest
    /\ suiteResult' = <<SuiteResult(results)>>
    /\ UNCHANGED <<testCases, started, calls, results, offRun>>

InitRunner ==
    /\ testCases \in SuiteInputs
    /\ started = 0
    /\ calls = [i \in 1..Len(testCases) |-> Call("waiting", <<>>, <<>>, <<>>)]
    /\ results = <<>>
    /\ suiteResult = <<>>
    /\ DocIdle /\ ToolIdle /\ ParamIdle /\ MatchIdle /\ RangeIdle /\ ExtIdle
    /\ ClientIdle /\ ScaffoldIdle /\ PanelIdle

NextRunner ==
    StartInvocation \/ SettleInvocation \/ ReturnResult \/ PushResult \/ FinishSuite

SpecRunner == InitRunner /\ [][NextRunner]_vars

(***************************************************************************)
(* validateOutput on one output and one expectation.                       *)
(***************************************************************************)
ImagePart == [type |-> "image"]
UIPart == [type |-> "ui"]

\* an MCPToolResult with isError: true
ErrorResult(content) == [content |-> content, isError |-> TRUE]

OutputPool ==
    { ToolResult(<<>>),
      ToolResult(<<TextPart("Mock response from search with input: {}")>>),
      ToolResult(<<ImagePart>>),
      ToolResult(<<TextPart("alpha"), ImagePart, TextPart("beta")>>),
      ToolResult(<<UIPart, TextPart("beta")>>),
      ErrorResult(<<>>),
      ErrorResult(<<TextPart("beta")>>) }

\* the keys an expectedOutput may carry beside type
OptionalKeys ==
    {[contains |-> c] : c \in {"", "Mock", "beta", "alpha\nbeta"}}
    \cup {[matches |-> RegExp(src)] : src \in {"^Mock", "beta", "^beta"}}
    \cup {[validator |-> v] : v \in {"nonEmpty", "isError", "throws"}}

KeySets ==
    {ks \in SUBSET OptionalKeys :
        \A a, b \in ks : a # b => DOMAIN a # DOMAIN b}

RECURSIVE WithKeys(_, _)
WithKeys(e, ks) ==
    IF ks = {} THEN e
    ELSE LET k == CHOOSE x \in ks : TRUE IN WithKeys(e @@ k, ks \ {k})

Expectations ==
    {<<>>} \cup {<<WithKeys([type |-> t], ks)>> : t \in {"text", "json", "ui"}, ks \in KeySets}

ValidateOutput ==
    /\ validation' = <<validateOutput(toolResult, expectation)>>
    /\ UNCHANGED <<expectation, toolResult, verdict, offMatch>>

Resolved(value) == [rejected |-> FALSE, reason |-> "", value |-> value]

\* runTest on a case with this expectation, resumed with toolResult as the
\* value of its invocation
RunTestResumes ==
    /\ verdict' = <<runTest(TestCase("probe-basic", "probe: Basic invocation", "probe",
                                     <<>>, expectation),
                            Resolved(toolResult))>>
    /\ UNCHANGED <<expectation, toolResult, validation, offMatch>>

InitMatcher ==
    /\ expectation \in Expectations
    /\ toolResult \in OutputPool
    /\ validation = <<>>
    /\ verdict = <<>>
    /\ DocIdle /\ ToolIdle /\ ParamIdle /\ RunIdle /\ RangeIdle /\ ExtIdle
    /\ ClientIdle /\ ScaffoldIdle /\ PanelIdle

NextMatcher == ValidateOutput \/ RunTestResumes

SpecMatcher == InitMatcher /\ [][NextMatcher]_vars

(***************************************************************************)
(* SchemaValidator.findRangeForPath on the text of a document.  The last   *)
(* path segment goes into the source of a RegExp as it is: a letter, a     *)
(* digit or _ matches itself, $ asserts the end of the text and ^ its      *)
(* start.                                                                  *)
(***************************************************************************)
Range(startLine, startCharacter, endLine, endCharacter) ==
    [start |-> [line |-> startLine, character |-> startCharacter],
     end |-> [line |-> endLine, character |-> endCharacter]]

\* document.positionAt(offset), offset counted from 0
positionAt(text, offset) ==
    LET breaks == {i \in 1..offset : Char(text, i) = "\n"}
        lastBreak == IF breaks = {} THEN 0
                     ELSE CHOOSE i \in breaks : \A k \in breaks : k <= i
    IN  [line |-> Cardinality(breaks), character |-> offset - lastBreak]

\* the characters \s matches
WhiteSpace == {" ", "\t", "\n", "\r"}

\* where the atoms k.. of the interpolated segment stop matching when they
\* start at index i of text, 0 when they do not match
RECURSIVE MatchSegment(_, _, _, _)
MatchSegment(text, i, segment, k) ==
    IF k > Len(segment) THEN i
    ELSE IF Char(segment, k) = "$"
    THEN IF i = Len(text) + 1 THEN MatchSegment(text, i, segment, k + 1) ELSE 0
    ELSE IF Char(segment, k) = "^"
    THEN IF i = 1 THEN MatchSegment(text, i, segment, k + 1) ELSE 0
    ELSE IF Char(text, i) = Char(segment, k)
    THEN MatchSegment(text, i + 1, segment, k + 1)
    ELSE 0

\* the length of the match of /"<segment>"\s*:/ at index i of text, 0 when
\* there is none
MatchKeyAt(text, i, segment) ==
    IF Char(text, i) # "\"" THEN 0
    ELSE LET close == MatchSegment(text, i + 1, segment, 1)
         IN  IF close = 0 \/ Char(text, close) # "\"" THEN 0
             ELSE LET rest == {q \in (close + 1)..Len(text) : Char(text, q) \notin WhiteSpace}
                      colon == IF rest = {} THEN 0
                               ELSE CHOOSE q \in rest : \A m \in rest : q <= m
                  IN  IF colon # 0 /\ Char(text, colon) = ":" THEN colon - i + 1 ELSE 0

\* keyPattern.exec(text): [index (from 0), length], index -1 when null
KeyPatternExec(text, segment) ==
    LET hits == {i \in 1..Len(text) : MatchKeyAt(text, i, segment) > 0}
    IN  IF hits = {} THEN [index |-> -1, length |-> 0]
        ELSE LET i == CHOOSE h \in hits : \A m \in hits : h <= m
             IN  [index |-> i - 1, length |-> MatchKeyAt(text, i, segment)]

findRangeForPath(text, path) ==
    IF path = "" THEN Range(0, 0, 0, 0)
    ELSE LET parts == SplitOn(path, {"."})
             searchKey == parts[Len(parts)]
             match == KeyPatternExec(text, searchKey)
         IN  IF match.index >= 0
             THEN LET pos == positionAt(text, match.index)
                  IN  Range(pos.line, pos.character,
                            pos.line, pos.character + match.length)
             ELSE Range(0, 0, 0, 0)

TextPool ==
    { "",
      "{\"$schema\": 5, \"tools\": []}",
      "{\"name\":\"x\",\"version\":\"1.0\"}",
      "{\"kind\": \"name\", \"name\": 1}",
      "{\n  \"tools\": [\n    {\"name\" : \"a\", \"description\": \"name\"},\n"
          \o "    {\"name\": \"b\"}\n  ]\n}",
      "{\n  \"tools\": [\n    {\"description\"\n      : \"Searches\", \"name\": \"a\"}\n  ]\n}" }

PathPool ==
    { "", "name", "version", "tools", "tools.0", "tools.0.name", "tools.1.name",
      "tools.0.description", "$schema", "kind", "tools.a", "tools.a.parameters.limit" }

FindRangeForPath ==
    /\ diagRange' = <<findRangeForPath(docText, diagPath)>>
    /\ UNCHANGED <<docText, diagPath, offRange>>

InitRange ==
    /\ docText \in TextPool
    /\ diagPath \in PathPool
    /\ diagRange = <<>>
    /\ DocIdle /\ ToolIdle /\ ParamIdle /\ RunIdle /\ MatchIdle /\ ExtIdle
    /\ ClientIdle /\ ScaffoldIdle /\ PanelIdle

NextRange == FindRangeForPath

SpecRange == InitRange /\ [][NextRange]_vars

(***************************************************************************)
(* The extension: activate, MCPConfigProvider and the status bar item.     *)
(* The workspace is the sequence of its folders; each folder's mcp.json is *)
(* absent, holds a JSON object, holds the JSON text null, or is malformed. *)
(* A call of refresh that reached its readFile is a record of the folders  *)
(* it iterates over, the index of the folder it is reading, and whether    *)
(* hasMCPConfig awaits it.                                                 *)
(***************************************************************************)
MaxFolders == 2
MaxEvents == 2

FolderNames == {"/a", "/b"}
FileKinds == {"absent", "object", "null", "malformed"}

Workspaces ==
    {w \in SeqsUpTo(FolderNames, MaxFolders) : \A i, j \in 1..Len(w) : i # j => w[i] # w[j]}

RefreshCall(over, at, awaited) == [over |-> over, at |-> at, awaited |-> awaited]

ConfigUri(folder) == folder \o "/mcp.json"

\* readFile then JSON.parse on the mcp.json of a folder: [threw, value]
LoadConfig(kind) ==
    CASE kind = "object" -> [threw |-> FALSE, value |-> <<"object">>]
      [] kind = "null" -> [threw |-> FALSE, value |-> <<>>]
      [] OTHER -> [threw |-> TRUE, value |-> <<>>]

\* the status bar item after `if (await configProvider.hasMCPConfig()) show()`
ShowIfConfigured(bar, cfg) == IF cfg # <<>> THEN "shown" ELSE bar

WithoutCall(calls_, k) ==
    [i \in 1..(Len(calls_) - 1) |-> IF i < k THEN calls_[i] ELSE calls_[i + 1]]

\* refresh() up to its first await, called from a watcher callback
BeginRefresh(ws) ==
    IF Len(ws) = 0
    THEN /\ config' = <<>> /\ configPath' = <<>>
         /\ UNCHANGED refreshes
    ELSE /\ refreshes' = Append(refreshes, RefreshCall(ws, 1, FALSE))
         /\ UNCHANGED <<config, configPath>>

\* activate: the provider is constructed (its constructor calls refresh), the
\* watchers are registered, the status bar item is created hidden, and
\* hasMCPConfig is awaited (it calls refresh again)
Activate ==
    /\ activation = "inactive"
    /\ IF Len(folders) = 0
       THEN /\ config' = <<>> /\ configPath' = <<>>
            /\ refreshes' = <<>>
            /\ activation' = "active"
            /\ statusBar' = ShowIfConfigured("hidden", <<>>)
       ELSE /\ refreshes' = << RefreshCall(folders, 1, FALSE),
                               RefreshCall(folders, 1, TRUE) >>
            /\ activation' = "activating"
            /\ statusBar' = "hidden"
            /\ UNCHANGED <<config, configPath>>
    /\ UNCHANGED <<folders, files, events, offExt>>

\* the readFile of a refresh settles: the config is loaded, or the loop goes
\* on to the next folder, or the loop is over and the config is cleared; when
\* the refresh hasMCPConfig awaits ends, activate resumes
ReadSettles ==
    \E k \in 1..Len(refreshes) :
        LET r == refreshes[k]
            folder == r.over[r.at]
            loaded == LoadConfig(files[folder])
            ends == ~loaded.threw \/ r.at = Len(r.over)
        IN  /\ IF ~loaded.threw
               THEN config' = loaded.value /\ configPath' = <<ConfigUri(folder)>>
               ELSE IF r.at = Len(r.over)
               THEN config' = <<>> /\ configPath' = <<>>
               ELSE UNCHANGED <<config, configPath>>
            /\ refreshes' = IF ends THEN WithoutCall(refreshes, k)
                            ELSE [refreshes EXCEPT ![k].at = r.at + 1]
            /\ IF ends /\ r.awaited
               THEN /\ activation' = "active"
                    /\ statusBar' = ShowIfConfigured(statusBar, config')
               ELSE UNCHANGED <<activation, statusBar>>
            /\ UNCHANGED <<folders, files, events, offExt>>

\* fileWatcher.onDidCreate
OnDidCreate ==
    /\ activation # "inactive" /\ events < MaxEvents
    /\ \E i \in 1..Len(folders), kind \in FileKinds \ {"absent"} :
           /\ files[folders[i]] = "absent"
           /\ files' = [files EXCEPT ![folders[i]] = kind]
    /\ events' = events + 1
    /\ BeginRefresh(folders)
    /\ UNCHANGED <<folders, activation, statusBar, offExt>>

\* fileWatcher.onDidChange
OnDidChange ==
    /\ activation # "inactive" /\ events < MaxEvents
    /\ \E i \in 1..Len(folders), kind \in FileKinds \ {"absent"} :
           /\ files[folders[i]] \notin {"absent", kind}
           /\ files' = [files EXCEPT ![folders[i]] = kind]
    /\ events' = events + 1
    /\ BeginRefresh(folders)
    /\ UNCHANGED <<folders, activation, statusBar, offExt>>

\* fileWatcher.onDidDelete
OnDidDelete ==
    /\ activation # "inactive" /\ events < MaxEvents
    /\ \E i \in 1..Len(folders) :
           /\ files[folders[i]] # "absent"
           /\ files' = [files EXCEPT ![folders[i]] = "absent"]
    /\ events' = events + 1
    /\ BeginRefresh(folders)
    /\ UNCHANGED <<folders, activation, statusBar, offExt>>

\* vscode.workspace.onDidChangeWorkspaceFolders
OnDidChangeWorkspaceFolders ==
    /\ activation # "inactive" /\ events < MaxEvents
    /\ \E w \in Workspaces :
           /\ w # folders
           /\ folders' = w
           /\ BeginRefresh(w)
    /\ events' = events + 1
    /\ UNCHANGED <<files, activation, statusBar, offExt>>

InitExtension ==
    /\ folders \in Workspaces
    /\ files \in [FolderNames -> FileKinds]
    /\ config = <<>> /\ configPath = <<>>
    /\ refreshes = <<>>
    /\ statusBar = "hidden"
    /\ activation = "inactive"
    /\ events = 0
    /\ DocIdle /\ ToolIdle /\ ParamIdle /\ RunIdle /\ MatchIdle /\ RangeIdle
    /\ ClientIdle /\ ScaffoldIdle /\ PanelIdle

NextExtension ==
    \/ Activate \/ ReadSettles
    \/ OnDidCreate \/ OnDidChange \/ OnDidDelete \/ OnDidChangeWorkspaceFolders

SpecExtension == InitExtension /\ [][NextExtension]_vars

(***************************************************************************)
(* MCPTestClient.  No method has an await: each call runs to its end in    *)
(* one step, and the promise it returns is fulfilled with a value or       *)
(* rejected with the message of the Error thrown.                          *)
(***************************************************************************)
MaxLifecycle == 3

ClientState(connected, serverInfo) ==
    [connected |-> connected, serverInfo |-> serverInfo, lastError |-> <<>>]

mockServerInfo ==
    [name |-> "test-server", version |-> "1.0.0", description |-> "Test MCP Server",
     capabilities |-> [tools |-> TRUE, resources |-> TRUE, prompts |-> TRUE]]

FulfilledWith(method, value) ==
    [method |-> method, rejected |-> FALSE, message |-> "", value |-> <<value>>]

RejectedWith(method, message) ==
    [method |-> method, rejected |-> TRUE, message |-> message, value |-> <<>>]

\* a guard that never throws
ensureConnectedNever(st) == <<>>

\* <<>> when the guard passes, <<message>> when it throws
ensureConnected(st) ==
    IF ~st.connected THEN <<"Client is not connected. Call connect() first.">>
    ELSE <<>>

\* a method that begins with this.ensureConnected() and then returns value
Guarded(st, method, value) ==
    IF ensureConnected(st) # <<>> THEN RejectedWith(method, ensureConnected(st)[1])
    ELSE FulfilledWith(method, value)

callTool(st, name, args) ==
    Guarded(st, "callTool",
            ToolResult(<<TextPart("Tool " \o name \o " called with args: "
                                      \o JSONstringify(args))>>))

\* uri.split('/').pop() || uri
ResourceName(uri) ==
    LET pieces == SplitOn(uri, {"/"})
    IN  IF pieces[Len(pieces)] # "" THEN pieces[Len(pieces)] ELSE uri

readResource(st, uri) ==
    Guarded(st, "readResource", [uri |-> uri, name |-> ResourceName(uri), content |-> ""])

\* args is <<>> when the argument is left out
getPrompt(st, name, args) ==
    Guarded(st, "getPrompt",
            [messages |->
                <<[role |-> "user",
                   content |-> "Prompt " \o name \o " with args: "
                                   \o JSONstringify(IF args = <<>> THEN <<>> ELSE args[1])]>>])

ClientNames == {"search", "fetch"}
ClientArgs == {<<>>, <<[key |-> "q", value |-> JStr("cats")]>>}
ClientUris == {"file:///data/items.json", "items", "data/"}

Connect ==
    /\ Len(lifecycle) < MaxLifecycle
    /\ clientState' = [clientState EXCEPT !.connected = TRUE,
                                          !.serverInfo = <<mockServerInfo>>]
    /\ lifecycle' = Append(lifecycle, "connect")
    /\ reply' = <<FulfilledWith("connect", mockServerInfo)>>
    /\ UNCHANGED offClient

Disconnect ==
    /\ Len(lifecycle) < MaxLifecycle
    /\ clientState' = [clientState EXCEPT !.connected = FALSE, !.serverInfo = <<>>]
    /\ lifecycle' = Append(lifecycle, "disconnect")
    /\ reply' = <<FulfilledWith("disconnect", Undefined)>>
    /\ UNCHANGED offClient

ListTools ==
    /\ reply' = <<Guarded(clientState, "listTools", <<>>)>>
    /\ UNCHANGED <<clientState, lifecycle, offClient>>

CallTool ==
    /\ \E name \in ClientNames, args \in ClientArgs :
           reply' = <<callTool(clientState, name, args)>>
    /\ UNCHANGED <<clientState, lifecycle, offClient>>

ListResources ==
    /\ reply' = <<Guarded(clientState, "listResources", <<>>)>>
    /\ UNCHANGED <<clientState, lifecycle, offClient>>

ReadResource ==
    /\ \E uri \in ClientUris : reply' = <<readResource(clientState, uri)>>
    /\ UNCHANGED <<clientState, lifecycle, offClient>>

ListPrompts ==
    /\ reply' = <<Guarded(clientState, "listPrompts", <<>>)>>
    /\ UNCHANGED <<clientState, lifecycle, offClient>>

GetPrompt ==
    /\ \E name \in ClientNames, args \in {<<>>} \cup {<<a>> : a \in ClientArgs} :
           reply' = <<getPrompt(clientState, name, args)>>
    /\ UNCHANGED <<clientState, lifecycle, offClient>>

InitClient ==
    /\ clientState = ClientState(FALSE, <<>>)
    /\ lifecycle = <<>>
    /\ reply = <<>>
    /\ DocIdle /\ ToolIdle /\ ParamIdle /\ RunIdle /\ MatchIdle /\ RangeIdle /\ ExtIdle
    /\ ScaffoldIdle /\ PanelIdle

NextClient ==
    \/ Connect \/ Disconnect
    \/ ListTools \/ CallTool \/ ListResources \/ ReadResource \/ ListPrompts \/ GetPrompt

SpecClient == InitClient /\ [][NextClient]_vars

(***************************************************************************)
(* Scaffolder.scaffold.  A GeneratedFile is its path and a tag for its     *)
(* content.  The file system answers each stat, createDirectory and        *)
(* writeFile with <<>> (done) or <<message>> (the Error it throws).  The   *)
(* logger only appends lines to the output channel.                        *)
(***************************************************************************)
GeneratedFile(filePath, content) == [path |-> filePath, content |-> content]

generateBasicTemplate ==
    << GeneratedFile("mcp.json", "config"),
       GeneratedFile("mcp-tools.json", "hello tool"),
       GeneratedFile("src/index.ts", "server"),
       GeneratedFile("package.json", "package"),
       GeneratedFile("tsconfig.json", "tsconfig") >>

\* files[toolsIndex] = the UI-enabled mcp-tools.json
generateWithUITemplate ==
    [i \in 1..Len(generateBasicTemplate) |->
        IF generateBasicTemplate[i].path = "mcp-tools.json"
        THEN GeneratedFile("mcp-tools.json", "ui tools")
        ELSE generateBasicTemplate[i]]

generateFullTemplate ==
    generateWithUITemplate
        \o << GeneratedFile("src/resources.ts", "resources"),
              GeneratedFile("src/prompts.ts", "prompts") >>

generateTemplate(type) ==
    CASE type = "basic" -> [threw |-> FALSE, message |-> "", list |-> generateBasicTemplate]
      [] type = "with-ui" -> [threw |-> FALSE, message |-> "", list |-> generateWithUITemplate]
      [] type = "full" -> [threw |-> FALSE, message |-> "", list |-> generateFullTemplate]
      [] OTHER -> [threw |-> TRUE, message |-> "Unknown template type: " \o type,
                   list |-> <<>>]

ScaffoldResult(success, filesCreated, errors) ==
    [success |-> success, filesCreated |-> filesCreated, errors |-> errors]

\* Scaffolder.writeFile under the answers fs of the file system: <<>> when
\* its promise is fulfilled, <<message>> when it is rejected
writeFile(fs) ==
    IF fs.stat # <<>> /\ fs.createDirectory # <<>> THEN fs.createDirectory
    ELSE fs.writeFile

\* the catch of the loop body, leaving success as it is
FileFailedKeepsSuccess(sr, file, message) ==
    [sr EXCEPT !.errors = Append(@, "Failed to create " \o file.path \o ": " \o message)]

\* the catch of the loop body
FileFailed(sr, file, message) ==
    [sr EXCEPT !.errors = Append(@, "Failed to create " \o file.path \o ": " \o message),
               !.success = FALSE]

\* the try of the loop body once writeFile is done
FileCreated(sr, file) == [sr EXCEPT !.filesCreated = Append(@, file.path)]

TemplateTypes == {"basic", "with-ui", "full", "custom"}

FsAnswers ==
    [stat : {<<>>, <<"ENOENT: no such file or directory">>},
     createDirectory : {<<>>, <<"EACCES: permission denied">>},
     writeFile : {<<>>, <<"ENOSPC: no space left on device">>}]

\* scaffold up to its first await: the result is initialised and the
\* template generated; a throw of generateTemplate goes to the outer catch
Scaffold ==
    /\ scaffoldOptions = <<>>
    /\ \E type \in TemplateTypes :
           LET made == generateTemplate(type)
               fresh == ScaffoldResult(TRUE, <<>>, <<>>)
           IN  /\ scaffoldOptions' = <<[template |-> type]>>
               /\ templateFiles' = made.list
               /\ IF made.threw
                  THEN /\ scaffoldResult' = <<[fresh EXCEPT !.success = FALSE,
                                                            !.errors = <<made.message>>]>>
                       /\ scaffoldReturn' = <<[rejected |-> FALSE,
                                               value |-> scaffoldResult'[1]]>>
                       /\ nextFile' = 0
                  ELSE /\ scaffoldResult' = <<fresh>>
                       /\ scaffoldReturn' = <<>>
                       /\ nextFile' = 1
    /\ UNCHANGED offScaffold

\* the awaited writeFile of the file the loop is at settles; after the last
\* file the loop is left and the result returned
WriteFileSettles ==
    /\ scaffoldOptions # <<>> /\ scaffoldReturn = <<>>
    /\ nextFile \in 1..Len(templateFiles)
    /\ \E fs \in FsAnswers :
           LET file == templateFiles[nextFile]
               settled == writeFile(fs)
           IN  scaffoldResult' = IF settled = <<>>
                                 THEN <<FileCreated(scaffoldResult[1], file)>>
                                 ELSE <<FileFailed(scaffoldResult[1], file, settled[1])>>
    /\ nextFile' = nextFile + 1
    /\ scaffoldReturn' = IF nextFile = Len(templateFiles)
                         THEN <<[rejected |-> FALSE, value |-> scaffoldResult'[1]]>>
                         ELSE <<>>
    /\ UNCHANGED <<scaffoldOptions, templateFiles, offScaffold>>

InitScaffold ==
    /\ scaffoldOptions = <<>> /\ templateFiles = <<>> /\ nextFile = 0
    /\ scaffoldResult = <<>> /\ scaffoldReturn = <<>>
    /\ DocIdle /\ ToolIdle /\ ParamIdle /\ RunIdle /\ MatchIdle /\ RangeIdle /\ ExtIdle
    /\ ClientIdle /\ PanelIdle

NextScaffold == Scaffold \/ WriteFileSettles

SpecScaffold == InitScaffold /\ [][NextScaffold]_vars

(***************************************************************************)
(* DashboardPanel.  An instance is the view column of its webview panel    *)
(* and whether it was disposed; currentPanel is the index of an instance.  *)
(* The active text editor's view column is <<>> when there is no editor.   *)
(***************************************************************************)
MaxPanels == 3

ViewColumnOne == 1
ViewColumns == {ViewColumnOne, 2}

Instance(column) == [column |-> column, disposed |-> FALSE]

PanelCall(method, created, revealed) ==
    [method |-> method, created |-> created, revealed |-> revealed]

\* DashboardPanel.createOrShow
CreateOrShow ==
    \E column \in {<<>>} \cup {<<c>> : c \in ViewColumns} :
        IF currentPanel # <<>>
        THEN /\ panels' = [panels EXCEPT ![currentPanel[1]].column =
                               IF column = <<>> THEN @ ELSE column[1]]
             /\ lastCall' = <<PanelCall("createOrShow", FALSE, currentPanel)>>
             /\ UNCHANGED <<currentPanel, offPanel>>
        ELSE /\ Len(panels) < MaxPanels
             /\ panels' = Append(panels, Instance(IF column = <<>> THEN ViewColumnOne
                                                  ELSE column[1]))
             /\ currentPanel' = <<Len(panels) + 1>>
             /\ lastCall' = <<PanelCall("createOrShow", TRUE, <<>>)>>
             /\ UNCHANGED offPanel

\* DashboardPanel.revive with a webview panel restored by the editor
Revive ==
    /\ Len(panels) < MaxPanels
    /\ \E column \in ViewColumns : panels' = Append(panels, Instance(column))
    /\ currentPanel' = <<Len(panels) + 1>>
    /\ lastCall' = <<PanelCall("revive", FALSE, <<>>)>>
    /\ UNCHANGED offPanel

\* dispose of an instance, called by the onDidDispose listener of its panel
Dispose ==
    /\ \E i \in 1..Len(panels) :
           /\ ~panels[i].disposed
           /\ panels' = [panels EXCEPT ![i].disposed = TRUE]
    /\ currentPanel' = <<>>
    /\ lastCall' = <<PanelCall("dispose", FALSE, <<>>)>>
    /\ UNCHANGED offPanel

InitPanel ==
    /\ panels = <<>> /\ currentPanel = <<>> /\ lastCall = <<>>
    /\ DocIdle /\ ToolIdle /\ ParamIdle /\ RunIdle /\ MatchIdle /\ RangeIdle /\ ExtIdle
    /\ ClientIdle /\ ScaffoldIdle

NextPanel == CreateOrShow \/ Revive \/ Dispose

SpecPanel == InitPanel /\ [][NextPanel]_vars

(***************************************************************************)
(* Properties of the validator.                                            *)
(***************************************************************************)
\* the tools document of the workspace parses and passes ToolsFileSchema
StructurallyValidTools(doc) ==
    /\ EndsWith(doc.fileName, "mcp-tools.json")
    /\ doc.content.syntax = "json"
    /\ ToolsFileSchema(doc.content.root) = <<>>

Occurrences(tools, n) == Cardinality({i \in 1..Len(tools) : tools[i].name = n})

ErrorsAt(res, path) == Cardinality({k \in 1..Len(res.errors) : res.errors[k].path = path})

WarningsAt(res, path) ==
    Cardinality({k \in 1..Len(res.warnings) : res.warnings[k].path = path})

\* C1: on a structurally valid tool collection validateTools reports, for each
\* tool name n, exactly occurrences(n) - 1 errors at path tools.<n>, and the
\* result is not valid as soon as one name occurs twice.
C1_DuplicateToolNames ==
    (result # <<>> /\ StructurallyValidTools(document)) =>
        LET tools == document.content.root.tools
            names == {tools[i].name : i \in 1..Len(tools)}
        IN  /\ \A n \in names :
                    ErrorsAt(result[1], "tools." \o n) = Occurrences(tools, n) - 1
            /\ (\E n \in names : Occurrences(tools, n) > 1) => ~result[1].valid

C1_Witness ==
    /\ result # <<>> /\ StructurallyValidTools(document)
    /\ Occurrences(document.content.root.tools, "search") = 2
    /\ ErrorsAt(result[1], "tools.search") = 1

IsValidatedFile(doc) ==
    EndsWith(doc.fileName, "mcp.json") \/ EndsWith(doc.fileName, "mcp-tools.json")

\* C2: on text that is not JSON, validateTools and validateConfig return a
\* result (they do not throw) with valid = false, exactly one error, whose
\* path is empty, and no warnings.
C2_ParseFailure ==
    (result # <<>> /\ IsValidatedFile(document) /\ document.content.syntax = "malformed") =>
        /\ result[1].valid = FALSE
        /\ Len(result[1].errors) = 1
        /\ result[1].errors[1].path = ""
        /\ result[1].warnings = <<>>

C2_Witness ==
    /\ result # <<>> /\ document.content.syntax = "malformed"
    /\ document.fileName = "/ws/mcp.json"
    /\ Len(result[1].errors) = 1

\* C3: every result of validateDocument (so of validateTools and of
\* validateConfig) is valid iff it carries no error, whatever its warnings.
C3_ValidIffNoErrors ==
    result # <<>> => (result[1].valid <=> result[1].errors = <<>>)

C3_Witness ==
    /\ result # <<>> /\ result[1].valid
    /\ Len(result[1].warnings) >= 2

\* the <<i, j>> of the top-level parameters declared required with a default
ContradictoryParams(tools) ==
    UNION {{<<i, j>> : j \in {k \in 1..Len(tools[i].parameters) :
                                 /\ tools[i].parameters[k].required = JBool(TRUE)
                                 /\ tools[i].parameters[k].default # Undefined}} :
              i \in 1..Len(tools)}

WarningPath(tools, ij) ==
    "tools." \o tools[ij[1]].name \o ".parameters." \o tools[ij[1]].parameters[ij[2]].name

\* C4: on a structurally valid tool collection each top-level parameter with
\* required = true and a default gives exactly one warning, at
\* tools.<tool>.parameters.<param>; no other parameter gives one; and a
\* result with no error stays valid whatever the warnings.
C4_RequiredWithDefaultWarns ==
    (result # <<>> /\ StructurallyValidTools(document)) =>
        LET tools == document.content.root.tools
            hits == ContradictoryParams(tools)
        IN  /\ Len(result[1].warnings) = Cardinality(hits)
            /\ \A ij \in hits :
                   WarningsAt(result[1], WarningPath(tools, ij))
                       = Cardinality({h \in hits :
                             WarningPath(tools, h) = WarningPath(tools, ij)})
            /\ (\A n \in {tools[i].name : i \in 1..Len(tools)} :
                    Occurrences(tools, n) = 1) => result[1].valid

C4_Witness ==
    /\ result # <<>> /\ StructurallyValidTools(document)
    /\ result[1].valid
    /\ WarningsAt(result[1], "tools.a_b.parameters.flag") = 1
    /\ WarningsAt(result[1], "tools.a_b.parameters.limit") = 1

\* C5: generateTypes and testServer generate or derive from a tools document
\* only if the validator finds it valid.
C5_GenerationOnlyWhenValid ==
    /\ (generated # <<>> /\ generated[1].status = "written")
           => validateTools(generated[1].source[1]).valid
    /\ (tests # <<>> /\ tests[1].status = "ran")
           => validateTools(tests[1].source[1]).valid

(***************************************************************************)
(* Properties of the type generator: the generated text is read back.      *)
(***************************************************************************)
RECURSIVE SplitText(_, _)
SplitText(text, sep) ==
    LET i == IndexOf(text, sep)
    IN  IF i = 0 THEN <<text>>
        ELSE <<Slice(text, 1, i - 1)>>
                 \o SplitText(Slice(text, i + Len(sep), Len(text)), sep)

\* the lines of a text: the pieces between the occurrences of the character c
MergeLines(l, r) == SubSeq(l, 1, Len(l) - 1) \o <<l[Len(l)] \o r[1]>> \o Tail(r)

RECURSIVE SplitLines(_, _)
SplitLines(text, c) ==
    IF Len(text) = 0 THEN <<"">>
    ELSE IF Len(text) = 1 THEN (IF text = c THEN <<"", "">> ELSE <<text>>)
    ELSE MergeLines(SplitLines(Slice(text, 1, Len(text) \div 2), c),
                    SplitLines(Slice(text, Len(text) \div 2 + 1, Len(text)), c))

\* 'x' -> x
Unquote(q) == Slice(q, 2, Len(q) - 1)

\* the literals of a union 'a' | 'b' | ...
UnionLiterals(text) ==
    LET parts == SplitText(text, " | ")
    IN  [k \in 1..Len(parts) |-> Unquote(parts[k])]

FirstIndex(lines, Test(_)) ==
    LET hits == {i \in 1..Len(lines) : Test(lines[i])}
    IN  IF hits = {} THEN 0 ELSE CHOOSE i \in hits : \A k \in hits : i <= k

IsInputInterfaceHeader(l) ==
    StartsWith(l, "export interface ") /\ EndsWith(l, "Input {")

IsClosingBrace(l) == l = "}"

IsNotComment(l) == ~StartsWith(l, "    /**")

\* the lines between the first line passing Opens and the next "}"
BlockOf(lines, Opens(_)) ==
    LET start == FirstIndex(lines, Opens)
        rest == SubSeq(lines, start + 1, Len(lines))
        stop == FirstIndex(rest, IsClosingBrace)
    IN  SelectSeq(SubSeq(rest, 1, stop - 1), IsNotComment)

\* `    name?: type;` read back as [name, optional]
ReadField(l) ==
    LET text == Slice(l, 5, Len(l))
        colon == IndexOf(text, ":")
        head == Slice(text, 1, colon - 1)
        optional == EndsWith(head, "?")
    IN  [name |-> IF optional THEN Slice(head, 1, Len(head) - 1) ELSE head,
         optional |-> optional]

\* C6: the <Tool>Input interface generated for a tool that passes ToolSchema
\* has one field per declared parameter, in declaration order, and a field
\* carries `?` iff the parameter's required flag is not true.
C6_InputInterfaceFields ==
    (toolTypes # <<>> /\ ToolSchema(tool, "tools.0") = <<>>) =>
        LET fields == BlockOf(toolTypes[1], IsInputInterfaceHeader)
        IN  /\ Len(fields) = Len(tool.parameters)
            /\ \A j \in 1..Len(fields) :
                   /\ ReadField(fields[j]).name = tool.parameters[j].name
                   /\ ReadField(fields[j]).optional
                          <=> (tool.parameters[j].required # JBool(TRUE))

C6_Witness ==
    /\ toolTypes # <<>> /\ ToolSchema(tool, "tools.0") = <<>>
    /\ Len(tool.parameters) = 2
    /\ tool.parameters[1].required = JBool(TRUE)
    /\ tool.parameters[2].required = Undefined
    /\ tool.parameters[1].name = "q" /\ tool.parameters[2].name = "p"

EnumIsNonEmpty(p) == p.enum # <<>> /\ p.enum[1] # <<>>

\* C7: paramToTsType gives the union of the enum literals whenever the enum
\* is not empty, whatever the type, also for a parameter under items or
\* properties; with no enum the text follows the type, an array with no
\* items being unknown[] and an object with no properties an open record.
C7_EnumOverridesType ==
    tsType # <<>> =>
        LET ts == tsType[1]
        IN  /\ EnumIsNonEmpty(param) => UnionLiterals(ts) = param.enum[1]
            /\ (~EnumIsNonEmpty(param) /\ param.type \in {"string", "number", "boolean"})
                   => ts = param.type
            /\ (~EnumIsNonEmpty(param) /\ param.type = "array" /\ param.items = <<>>)
                   => ts = "unknown[]"
            /\ (~EnumIsNonEmpty(param) /\ param.type = "object" /\ param.properties = <<>>)
                   => ts = "Record<string, unknown>"
            /\ (~EnumIsNonEmpty(param) /\ param.type = "array" /\ param.items # <<>>)
                   => /\ StartsWith(ts, "Array<") /\ EndsWith(ts, ">")
                      /\ EnumIsNonEmpty(param.items[1])
                             => UnionLiterals(Slice(ts, 7, Len(ts) - 1))
                                    = param.items[1].enum[1]
            /\ (/\ ~EnumIsNonEmpty(param) /\ param.type = "object"
                /\ param.properties # <<>> /\ Len(param.properties[1]) = 1
                /\ EnumIsNonEmpty(param.properties[1][1].value))
                   => /\ StartsWith(ts, "{ " \o param.properties[1][1].key \o ": ")
                      /\ EndsWith(ts, " }")
                      /\ UnionLiterals(Slice(ts, Len(param.properties[1][1].key) + 5,
                                             Len(ts) - 2))
                             = param.properties[1][1].value.enum[1]

C7_Witness ==
    /\ tsType = <<"'fast' | 'slow'">>
    /\ param.type = "array" /\ param.items # <<>>

IsToolNameLine(l) == StartsWith(l, "export type ToolName = ")
IsInputMapHeader(l) == l = "export interface ToolInputMap {"
IsHandlersHeader(l) == l = "export interface ToolHandlers {"

\* the names of the ToolName union, in order
ReadToolNames(lines) ==
    LET l == lines[FirstIndex(lines, IsToolNameLine)]
        body == Slice(l, Len("export type ToolName = ") + 1, Len(l) - 1)
    IN  IF body = "" THEN <<>> ELSE UnionLiterals(body)

\* the <Name>Input interfaces declared before the ToolName union, in order
ReadDeclaredInputs(lines) ==
    LET decls == SelectSeq(SubSeq(lines, 1, FirstIndex(lines, IsToolNameLine) - 1),
                           IsInputInterfaceHeader)
    IN  [k \in 1..Len(decls) |->
            Slice(decls[k], Len("export interface ") + 1, Len(decls[k]) - 2)]

\* `    'name': Type;` read back as <<name, Type>>
ReadMapEntry(l) ==
    LET text == Slice(l, 6, Len(l))
        q == IndexOf(text, "': ")
    IN  <<Slice(text, 1, q - 1), Slice(text, q + 3, Len(text) - 1)>>

\* `    name(input: Type): Promise<MCPToolResult>;` read back as <<name, Type>>
ReadHandler(l) ==
    LET text == Slice(l, 5, Len(l))
        open == IndexOf(text, "(input: ")
        close == IndexOf(text, "): Promise<MCPToolResult>;")
    IN  <<Slice(text, 1, open - 1), Slice(text, open + 8, close - 1)>>

\* C8: generate returns toolCount = the number of tools, and the ToolName
\* union, the ToolInputMap entries and the ToolHandlers methods each list the
\* tools once each in collection order, every name with the input type that
\* was declared for that tool.
C8_UnionMapHandlers ==
    (generated # <<>> /\ generated[1].status = "written") =>
        LET tools == generated[1].source[1].root.tools
            lines == SplitLines(generated[1].content, "\n")
            declared == ReadDeclaredInputs(lines)
            entries == BlockOf(lines, IsInputMapHeader)
            methods == BlockOf(lines, IsHandlersHeader)
            expected == [i \in 1..Len(tools) |-> <<tools[i].name, declared[i]>>]
        IN  /\ generated[1].toolCount = Len(tools)
            /\ Len(declared) = Len(tools)
            /\ ReadToolNames(lines) = [i \in 1..Len(tools) |-> tools[i].name]
            /\ [k \in 1..Len(entries) |-> ReadMapEntry(entries[k])] = expected
            /\ [k \in 1..Len(methods) |-> ReadHandler(methods[k])] = expected

C8_Witness ==
    /\ generated # <<>> /\ generated[1].status = "written"
    /\ generated[1].toolCount = 2
    /\ generated[1].source[1].root.tools[1].name = "a_b"
    /\ generated[1].source[1].root.tools[2].name = "search"
    /\ ReadMapEntry(BlockOf(SplitLines(generated[1].content, "\n"),
                            IsInputMapHeader)[1]) = <<"a_b", "ABInput">>

(***************************************************************************)
(* Properties of the test deriver.                                         *)
(***************************************************************************)
AnyRequired(t) ==
    \E j \in 1..Len(t.parameters) : t.parameters[j].required = JBool(TRUE)

ExamplesOf(t) == IF t.examples = <<>> THEN <<>> ELSE t.examples[1]

CaseCount(t) == 1 + (IF AnyRequired(t) THEN 1 ELSE 0) + Len(ExamplesOf(t))

RECURSIVE CasesBefore(_, _)
CasesBefore(tools, i) ==
    IF i <= 1 THEN 0 ELSE CasesBefore(tools, i - 1) + CaseCount(tools[i - 1])

\* C9: per tool, in collection order: one basic case with a key per
\* parameter; if a parameter is required, one case whose keys are the
\* required parameters; then one case per example in example order.  The two
\* generated kinds expect content type text.
C9_DerivedCases ==
    (tests # <<>> /\ tests[1].status = "ran") =>
        LET tools == tests[1].source[1].root.tools
            cases == tests[1].cases
        IN  /\ Len(cases) = CasesBefore(tools, Len(tools) + 1)
            /\ \A i \in 1..Len(tools) :
                   LET t == tools[i]
                       at == CasesBefore(tools, i)
                       req == IF AnyRequired(t) THEN 1 ELSE 0
                   IN  /\ \A k \in 1..CaseCount(t) : cases[at + k].tool = t.name
                       /\ ObjKeys(cases[at + 1].input)
                              = {t.parameters[j].name : j \in 1..Len(t.parameters)}
                       /\ cases[at + 1].expectedOutput = <<[type |-> "text"]>>
                       /\ AnyRequired(t) =>
                              /\ ObjKeys(cases[at + 2].input)
                                     = {t.parameters[j].name :
                                           j \in {m \in 1..Len(t.parameters) :
                                                     t.parameters[m].required = JBool(TRUE)}}
                              /\ cases[at + 2].expectedOutput = <<[type |-> "text"]>>
                       /\ \A k \in 1..Len(ExamplesOf(t)) :
                              cases[at + 1 + req + k].input = ExamplesOf(t)[k].input

C9_Witness ==
    /\ tests # <<>> /\ tests[1].status = "ran"
    /\ Len(tests[1].source[1].root.tools) = 2
    /\ tests[1].source[1].root.tools[1].name = "fetch"
    /\ Len(ExamplesOf(tests[1].source[1].root.tools[1])) = 2
    /\ tests[1].source[1].root.tools[2].name = "aB"
    /\ Len(tests[1].cases) = 5
    /\ ObjKeys(tests[1].cases[2].input) = {"mode"}

\* C10: generateSampleValue returns the default when one is present (false,
\* 0, "" and null included), else the first enum value when the enum is not
\* empty, else by type: "sample_" + name, 42, true, [], {} and null.
C10_SampleValuePolicy ==
    sample # <<>> =>
        IF param.default # Undefined THEN sample[1] = param.default
        ELSE IF EnumIsNonEmpty(param) THEN sample[1] = JStr(param.enum[1][1])
        ELSE sample[1] =
                 (CASE param.type = "string" -> JStr("sample_" \o param.name)
                    [] param.type = "number" -> JNum("42")
                    [] param.type = "boolean" -> JBool(TRUE)
                    [] param.type = "array" -> JEmptyArray
                    [] param.type = "object" -> JEmptyObject
                    [] OTHER -> JNull)

C10_Witness ==
    /\ sample = <<JBool(FALSE)>>
    /\ param.default = JBool(FALSE)
    /\ EnumIsNonEmpty(param)
    /\ param.type = "string"

\* C11: case ids are made of the tool name, the case kind and the zero-based
\* example index: <tool>-basic, <tool>-required-params, <tool>-example-<i>;
\* deriving again from the same collection gives the same cases in the same
\* order.
C11_CaseIds ==
    /\ [](tests # <<>> /\ tests[1].status = "ran" =>
             LET tools == tests[1].source[1].root.tools
                 cases == tests[1].cases
             IN  \A i \in 1..Len(tools) :
                     LET t == tools[i]
                         at == CasesBefore(tools, i)
                         req == IF AnyRequired(t) THEN 1 ELSE 0
                     IN  /\ cases[at + 1].id = t.name \o "-basic"
                         /\ AnyRequired(t) =>
                                cases[at + 2].id = t.name \o "-required-params"
                         /\ \A k \in 1..Len(ExamplesOf(t)) :
                                cases[at + 1 + req + k].id
                                    = t.name \o "-example-" \o ToString(k - 1))
    /\ [][tests # <<>> => tests' = tests]_vars

C11_Witness ==
    /\ tests # <<>> /\ tests[1].status = "ran"
    /\ Len(tests[1].source[1].root.tools) = 2
    /\ Len(tests[1].cases) = 6
    /\ tests[1].cases[1].id = "fetch-basic"
    /\ tests[1].cases[2].id = "fetch-required-params"
    /\ tests[1].cases[3].id = "fetch-example-0"
    /\ tests[1].cases[4].id = "fetch-example-1"
    /\ tests[1].cases[5].id = "search-basic"

\* C12: a case derived from a declared example has the example's input
\* unchanged and no expectedOutput, whatever output the example declares.
C12_ExampleCases ==
    (tests # <<>> /\ tests[1].status = "ran") =>
        LET tools == tests[1].source[1].root.tools
            cases == tests[1].cases
        IN  \A i \in 1..Len(tools) :
                LET t == tools[i]
                    at == CasesBefore(tools, i) + 1
                             + (IF AnyRequired(t) THEN 1 ELSE 0)
                IN  \A k \in 1..Len(ExamplesOf(t)) :
                        /\ cases[at + k].input = ExamplesOf(t)[k].input
                        /\ cases[at + k].expectedOutput = <<>>

C12_Witness ==
    /\ tests # <<>> /\ tests[1].status = "ran"
    /\ Len(tests[1].source[1].root.tools) = 1
    /\ Len(ExamplesOf(tests[1].source[1].root.tools[1])) = 2
    /\ ExamplesOf(tests[1].source[1].root.tools[1])[2].output = JStr("3 matches")
    /\ tests[1].cases[4].input = <<Prop("query", JStr("cats"))>>
    /\ tests[1].cases[4].expectedOutput = <<>>

(***************************************************************************)
(* Properties of the test runner.                                          *)
(***************************************************************************)
InProgress == {i \in 1..Len(calls) : calls[i].phase \in {"invoking", "settled", "returned"}}

Rejected(i) == calls[i].settled # <<>> /\ calls[i].settled[1].rejected

\* C13: runTests returns one TestResult per input case in input order
\* (results[i].testId = cases[i].id), and the invocation for case i+1 starts
\* only after the result for case i has been recorded.
C13_OneResultPerCaseInOrder ==
    /\ Len(results) <= Len(testCases)
    /\ \A i \in 1..Len(results) : results[i].testId = testCases[i].id
    /\ suiteResult # <<>> =>
           /\ Len(suiteResult[1].results) = Len(testCases)
           /\ \A i \in 1..Len(testCases) :
                  suiteResult[1].results[i].testId = testCases[i].id
    /\ \A i \in 1..(Len(testCases) - 1) :
           calls[i + 1].phase # "waiting" =>
               calls[i].phase = "recorded" /\ Len(results) >= i

C13_Witness ==
    /\ suiteResult # <<>>
    /\ Len(testCases) = 3
    /\ testCases[1].id = "page-json"
    /\ testCases[2].id = "search-basic"
    /\ testCases[3].id = "big-basic"
    /\ suiteResult[1].results[2].testId = "search-basic"
    /\ suiteResult[1].results[2].passed

\* C14: when the invocation for a case rejects, runTest records passed=false
\* with the failure message and no output, evaluates no expectation for the
\* case, and the suite goes on: the next case can start, and a finished suite
\* has run every later case.
C14_InvocationFailureIsolated ==
    \A i \in 1..Len(calls) :
        Rejected(i) =>
            /\ calls[i].returned # <<>> =>
                   /\ calls[i].returned[1].passed = FALSE
                   /\ calls[i].returned[1].error = <<calls[i].settled[1].reason>>
                   /\ calls[i].returned[1].output = <<>>
                   /\ calls[i].steps = <<>>
            /\ (calls[i].phase = "recorded" /\ i < Len(calls)
                    /\ calls[i + 1].phase = "waiting") => ENABLED StartInvocation
            /\ suiteResult # <<>> =>
                   \A j \in i..Len(calls) :
                       /\ calls[j].phase = "recorded"
                       /\ calls[j].settled # <<>>
                       /\ suiteResult[1].results[j] = calls[j].returned[1]

C14_Witness ==
    /\ suiteResult # <<>>
    /\ Len(testCases) = 3
    /\ testCases[1].id = "big-basic"
    /\ Rejected(1)
    /\ suiteResult[1].results[1].passed = FALSE
    /\ suiteResult[1].results[1].error = <<"Do not know how to serialize a BigInt">>
    /\ testCases[2].id = "search-example-0"
    /\ suiteResult[1].results[2].passed
    /\ suiteResult[1].results[3].output # <<>>

\* C16: in a suite result, passed + failed is the number of input cases,
\* skipped is 0, and passed and failed count the results with passed true
\* and false.
C16_SuiteCounts ==
    suiteResult # <<>> =>
        LET s == suiteResult[1]
        IN  /\ s.passed + s.failed = Len(testCases)
            /\ s.skipped = 0
            /\ s.passed = Cardinality({i \in 1..Len(s.results) : s.results[i].passed})
            /\ s.failed = Cardinality({i \in 1..Len(s.results) : ~s.results[i].passed})

C16_Witness ==
    /\ suiteResult # <<>>
    /\ Len(testCases) = 3
    /\ suiteResult[1].passed = 1
    /\ suiteResult[1].failed = 2
    /\ suiteResult[1].results[2].passed

\* C17: within one suite run at most one case is between the start of its
\* invocation and the recording of its result.
C17_OneInvocationInFlight == Cardinality(InProgress) <= 1

C17_Witness ==
    /\ Len(testCases) = 3
    /\ calls[1].phase = "recorded"
    /\ calls[2].phase = "invoking"
    /\ calls[3].phase = "waiting"

(***************************************************************************)
(* Properties of the matcher.                                              *)
(***************************************************************************)
MatcherSteps == <<"type", "contains", "matches", "validator">>

\* the expectation has the key and the key holds a truthy value
Expects(e, k) ==
    /\ MatcherSteps[k] \in DOMAIN e
    /\ MatcherSteps[k] = "contains" => e.contains # ""

TextOf(out) ==
    Join([i \in 1..Len(SelectSeq(out.content, IsTextPart)) |->
             SelectSeq(out.content, IsTextPart)[i].text], "\n")

PredicateThrows(e) == e.validator = "throws"

\* step k of the expectation does not hold of the output
ViolatedStep(out, e, k) ==
    CASE k = 1 -> \A i \in 1..Len(out.content) : out.content[i].type # e.type
      [] k = 2 -> \A i \in 1..Len(TextOf(out)) :
                      Slice(TextOf(out), i, i + Len(e.contains) - 1) # e.contains
      [] k = 3 -> IF Char(e.matches.source, 1) = "^"
                  THEN Slice(TextOf(out), 1, Len(e.matches.source) - 1)
                           # Slice(e.matches.source, 2, Len(e.matches.source))
                  ELSE \A i \in 1..Len(TextOf(out)) :
                           Slice(TextOf(out), i, i + Len(e.matches.source) - 1)
                               # e.matches.source
      [] OTHER -> IF e.validator = "nonEmpty" THEN out.content = <<>>
                  ELSE IF e.validator = "isError"
                  THEN ~("isError" \in DOMAIN out /\ out.isError)
                  ELSE TRUE

StepMessage(e, k) ==
    CASE k = 1 -> "Expected content type \"" \o e.type \o "\" not found"
      [] k = 2 -> "Output does not contain \"" \o e.contains \o "\""
      [] k = 3 -> "Output does not match pattern /" \o e.matches.source \o "/"
      [] OTHER -> "Custom validator returned false"

\* the first expected step that is violated, 0 when there is none
FirstViolated(out, e) ==
    LET bad == {k \in 1..4 : Expects(e, k) /\ ViolatedStep(out, e, k)}
    IN  IF bad = {} THEN 0 ELSE CHOOSE k \in bad : \A m \in bad : k <= m

\* C15: validateOutput checks content type, substring, pattern and custom
\* predicate in this order and stops at the first violated step: the result
\* has exactly the error message of that step and no later step, the custom
\* predicate in particular, is evaluated; it passes iff no present
\* expectation is violated.
C15_MatcherShortCircuit ==
    validation # <<>> =>
        IF expectation = <<>>
        THEN validation[1].passed /\ validation[1].error = <<>>
                 /\ validation[1].steps = <<>>
        ELSE LET e == expectation[1]
                 v == validation[1]
                 first == FirstViolated(toolResult, e)
                 last == IF first = 0 THEN 4 ELSE first
             IN  /\ v.steps = SelectSeq(SubSeq(MatcherSteps, 1, last),
                                        LAMBDA s : \E k \in 1..4 :
                                                       MatcherSteps[k] = s /\ Expects(e, k))
                 /\ (first = 4 /\ PredicateThrows(e)) => v.threw
                 /\ ~(first = 4 /\ PredicateThrows(e)) =>
                        /\ ~v.threw
                        /\ v.passed <=> first = 0
                        /\ first = 0 => v.error = <<>>
                        /\ first # 0 => v.error = <<StepMessage(e, first)>>

C15_Witness ==
    /\ validation # <<>>
    /\ expectation # <<>>
    /\ DOMAIN expectation[1] = {"type", "contains", "matches", "validator"}
    /\ expectation[1].type = "text"
    /\ expectation[1].contains = "Mock"
    /\ expectation[1].matches.source = "^Mock"
    /\ expectation[1].validator = "throws"
    /\ toolResult = ToolResult(<<UIPart, TextPart("beta")>>)
    /\ validation[1].passed = FALSE
    /\ validation[1].error = <<"Output does not contain \"Mock\"">>
    /\ validation[1].steps = <<"type", "contains">>

(***************************************************************************)
(* Properties of the diagnostics.                                          *)
(***************************************************************************)
LastSegment(p) == SplitOn(p, {"."})[Len(SplitOn(p, {"."}))]

\* text holds "<segment>" at index i, followed by a colon after any blanks
QuotedKeyAt(text, i, segment) ==
    /\ Slice(text, i, i + Len(segment) + 1) = "\"" \o segment \o "\""
    /\ \E q \in (i + Len(segment) + 2)..Len(text) :
           /\ Char(text, q) = ":"
           /\ \A m \in (i + Len(segment) + 2)..(q - 1) : Char(text, m) \in WhiteSpace

QuotedKeys(text, segment) == {i \in 1..Len(text) : QuotedKeyAt(text, i, segment)}

\* C18: findRangeForPath gives a range that starts at the first occurrence of
\* the last path segment as a quoted key followed by a colon, and the range
\* (0,0)-(0,0) when the path is empty or the text has no such key.
C18_FirstQuotedKey ==
    diagRange # <<>> =>
        IF diagPath = "" \/ QuotedKeys(docText, LastSegment(diagPath)) = {}
        THEN diagRange[1] = Range(0, 0, 0, 0)
        ELSE LET keys == QuotedKeys(docText, LastSegment(diagPath))
                 first == CHOOSE i \in keys : \A m \in keys : i <= m
             IN  diagRange[1].start = positionAt(docText, first - 1)

(***************************************************************************)
(* Properties of the extension.                                            *)
(***************************************************************************)
\* a workspace folder has an mcp.json that holds a JSON object
IsMCPProject == \E i \in 1..Len(folders) : files[folders[i]] = "object"

\* no workspace folder has an mcp.json that can be read and parsed
IsNoMCPProject ==
    \A i \in 1..Len(folders) : files[folders[i]] \in {"absent", "malformed"}

\* activation is over and no refresh is under way
Settled == activation = "active" /\ refreshes = <<>>

\* C19: once activation is over and every refresh has completed, the status
\* bar indicator is shown when the workspace is an MCP project and hidden
\* when it is not, also after mcp.json create/change/delete and
\* workspace-folder events.
C19_IndicatorTracksProject ==
    Settled =>
        /\ IsMCPProject => statusBar = "shown"
        /\ IsNoMCPProject => statusBar = "hidden"

(***************************************************************************)
(* Properties of the validator on nested parameters.                       *)
(***************************************************************************)
RECURSIVE Nested(_)
\* a parameter and every parameter under its items and properties
Nested(p) ==
    {p}
    \cup (IF p.items = <<>> THEN {} ELSE Nested(p.items[1]))
    \cup (IF p.properties = <<>> THEN {}
          ELSE UNION {Nested(p.properties[1][k].value) :
                         k \in 1..Len(p.properties[1])})

AllParameters(t) == UNION {Nested(t.parameters[j]) : j \in 1..Len(t.parameters)}

Contradictory(p) == p.required = JBool(TRUE) /\ p.default # Undefined

\* C20: on a structurally valid tool collection, every parameter with
\* required = true and a default, at any nesting depth, has a warning of its
\* tool whose path ends in the parameter's name.
C20_NestedRequiredWithDefaultWarns ==
    (result # <<>> /\ StructurallyValidTools(document)) =>
        \A i \in 1..Len(document.content.root.tools) :
            LET t == document.content.root.tools[i]
            IN  \A p \in {q \in AllParameters(t) : Contradictory(q)} :
                    \E k \in 1..Len(result[1].warnings) :
                        /\ StartsWith(result[1].warnings[k].path,
                                      "tools." \o t.name \o ".parameters.")
                        /\ EndsWith(result[1].warnings[k].path, "." \o p.name)

(***************************************************************************)
(* Properties of the validator on structurally invalid documents.          *)
(***************************************************************************)
\* the tools document of the workspace parses and fails ToolsFileSchema
StructurallyInvalidTools(doc) ==
    /\ EndsWith(doc.fileName, "mcp-tools.json")
    /\ doc.content.syntax = "json"
    /\ ToolsFileSchema(doc.content.root) # <<>>

\* tool t breaks a rule of ToolSchema
BreaksToolSchema(t) ==
    \/ ~MatchesIdentifier(t.name)
    \/ Len(t.name) > 64
    \/ Len(t.description) < 10
    \/ Len(t.description) > 1000
    \/ \E j \in 1..Len(t.parameters) : ParameterSchema(t.parameters[j], "") # <<>>
    \/ (t.returns # <<>> /\ t.returns[1].type \notin ReturnTypes)

\* C21: when a tool-collection document has a structural violation the
\* semantic pass is not run: the result is not valid, has no warnings and no
\* `Duplicate tool name` error, and its errors are the structural violations,
\* one per violation, each with its dotted path.
C21_StructuralSkipsSemantic ==
    (result # <<>> /\ StructurallyInvalidTools(document)) =>
        LET root == document.content.root
            errors == result[1].errors
        IN  /\ result[1].valid = FALSE
            /\ result[1].warnings = <<>>
            /\ \A k \in 1..Len(errors) :
                   ~StartsWith(errors[k].message, "Duplicate tool name")
            /\ errors = ToolsFileSchema(root)
            /\ (root.kind = "object" /\ root.toolsKind = "array") =>
                   \A i \in 1..Len(root.tools) :
                       BreaksToolSchema(root.tools[i]) <=>
                           \E k \in 1..Len(errors) :
                               StartsWith(errors[k].path,
                                          "tools." \o ToString(i - 1) \o ".")

C21_Witness ==
    /\ result # <<>> /\ StructurallyInvalidTools(document)
    /\ Len(document.content.root.tools) = 2
    /\ document.content.root.tools[1].name = "search"
    /\ document.content.root.tools[2].name = "search"
    /\ document.content.root.tools[2].description = "Too short"
    /\ \E j \in 1..Len(document.content.root.tools[2].parameters) :
           RequiredWithDefault(document.content.root.tools[2].parameters[j])
    /\ result[1].errors
           = <<Issue("tools.1.description", "String must contain at least 10 character(s)")>>

\* C22: when the invocation of a case succeeds and the case has no
\* expectedOutput, the case passes with no error message whatever the
\* result is (isError or empty content included) and keeps the result as
\* its output; the matcher is run only when expectedOutput is present.
C22_NoExpectationPasses ==
    verdict # <<>> =>
        /\ expectation = <<>> =>
               /\ verdict[1].result.passed
               /\ verdict[1].result.error = <<>>
               /\ verdict[1].result.output = <<toolResult>>
               /\ verdict[1].steps = <<>>
        /\ verdict[1].steps # <<>> => expectation # <<>>
        /\ expectation # <<>> => verdict[1].steps[1] = "type"

C22_Witness ==
    /\ verdict # <<>>
    /\ expectation = <<>>
    /\ toolResult = ErrorResult(<<>>)
    /\ verdict[1].result.passed
    /\ verdict[1].result.testId = "probe-basic"

RECURSIVE JoinedText(_)
\* the text of the text items of a content, in order, a newline between two
JoinedText(content) ==
    IF content = <<>> THEN ""
    ELSE IF Head(content).type # "text" THEN JoinedText(Tail(content))
    ELSE IF \A i \in 1..Len(Tail(content)) : Tail(content)[i].type # "text"
    THEN Head(content).text
    ELSE Head(content).text \o "\n" \o JoinedText(Tail(content))

Occurs(text, needle) ==
    \E i \in 1..(Len(text) + 1) : Slice(text, i, i + Len(needle) - 1) = needle

PatternHolds(source, text) ==
    IF Char(source, 1) = "^" THEN Occurs(Slice(text, 1, Len(source) - 1),
                                         Slice(source, 2, Len(source)))
                                  /\ Len(text) >= Len(source) - 1
    ELSE Occurs(text, source)

StepEvaluated(step) == \E k \in 1..Len(validation[1].steps) : validation[1].steps[k] = step

C24_ConfigIffConfigPath ==
    Settled => (config = <<>> <=> configPath = <<>>)

\* what one refresh computes when it runs alone over the folders ws with the
\* files fs: the first folder whose mcp.json is read and parsed, or nothing
RefreshOutcome(ws, fs) ==
    LET loads == {i \in 1..Len(ws) : ~LoadConfig(fs[ws[i]]).threw}
    IN  IF loads = {} THEN [config |-> <<>>, configPath |-> <<>>]
        ELSE LET first == CHOOSE i \in loads : \A j \in loads : i <= j
             IN  [config |-> LoadConfig(fs[ws[first]]).value,
                  configPath |-> <<ConfigUri(ws[first])>>]

\* C25: when refresh calls overlap, the config and configPath left after all
\* of them completed are those of the most recently started refresh.  Every
\* change of a file or of the folders starts a refresh, so the most recently
\* started refresh reads the folders and files as they are at the end.
C25_LatestRefreshWins ==
    Settled =>
        /\ config = RefreshOutcome(folders, files).config
        /\ configPath = RefreshOutcome(folders, files).configPath

(***************************************************************************)
(* Properties of the generated names and identifiers.                      *)
(***************************************************************************)
\* C26: for a tool collection that passes validation (tool names pairwise
\* distinct), the <PascalCase>Input interface names declared in the generated
\* text are pairwise distinct.
C26_InputNamesDistinct ==
    (/\ generated # <<>> /\ generated[1].status = "written"
     /\ validateDocument(document).valid) =>
        LET declared == ReadDeclaredInputs(SplitLines(generated[1].content, "\n"))
        IN  \A i, j \in 1..Len(declared) : i # j => declared[i] # declared[j]

\* C27: for a tool collection whose names are pairwise distinct and match
\* the tool-name identifier rule, the ids of the cases produced by
\* generateFromTools are pairwise distinct.
C27_CaseIdsDistinct ==
    (tests # <<>> /\ tests[1].status = "ran") =>
        LET tools == tests[1].source[1].root.tools
            cases == tests[1].cases
        IN  (/\ \A i \in 1..Len(tools) : MatchesIdentifier(tools[i].name)
             /\ \A i, j \in 1..Len(tools) : i # j => tools[i].name # tools[j].name)
                => \A i, j \in 1..Len(cases) : i # j => cases[i].id # cases[j].id

C27_Witness ==
    /\ tests # <<>> /\ tests[1].status = "ran"
    /\ Len(tests[1].source[1].root.tools) = 2
    /\ tests[1].source[1].root.tools[1].name = "fetch"
    /\ tests[1].source[1].root.tools[2].name = "search"
    /\ Len(tests[1].source[1].root.tools[1].examples[1]) = 2
    /\ Len(tests[1].cases) = 7
    /\ Cardinality({tests[1].cases[k].id : k \in 1..7}) = 7

(***************************************************************************)
(* Properties of MCPTestClient.                                            *)
(***************************************************************************)
GuardedMethods ==
    {"listTools", "callTool", "listResources", "readResource", "listPrompts", "getPrompt"}

\* the latest connect or disconnect call, if there is one, is a connect
LatestIsConnect == lifecycle # <<>> /\ lifecycle[Len(lifecycle)] = "connect"

\* C28: a guarded method fails with 'Client is not connected' exactly when
\* the latest preceding connect/disconnect call is not a connect or there is
\* none; a failed call leaves the client state unchanged; connected is true
\* iff serverInfo is not null.
C28_GuardFollowsLifecycle ==
    /\ []((reply # <<>> /\ reply[1].method \in GuardedMethods) =>
             /\ reply[1].rejected <=> ~LatestIsConnect
             /\ reply[1].rejected => StartsWith(reply[1].message, "Client is not connected"))
    /\ [](clientState.connected <=> clientState.serverInfo # <<>>)
    /\ [][(reply' # <<>> /\ reply'[1].rejected) => clientState' = clientState]_vars

C28_Witness ==
    /\ lifecycle = <<"connect", "disconnect">>
    /\ reply = <<RejectedWith("callTool", "Client is not connected. Call connect() first.")>>
    /\ ~clientState.connected /\ clientState.serverInfo = <<>>

C28_WitnessConnected ==
    /\ lifecycle = <<"disconnect", "connect">>
    /\ reply # <<>> /\ reply[1].method = "readResource" /\ ~reply[1].rejected
    /\ reply[1].value[1].name = "data/"

(***************************************************************************)
(* Properties of Scaffolder.                                               *)
(***************************************************************************)
\* how often x occurs in the sequence s
TimesIn(s, x) == Cardinality({k \in 1..Len(s) : s[k] = x})

\* how many entries of s report the failure to create the file at filePath
FailuresOf(s, filePath) ==
    Cardinality({k \in 1..Len(s) :
                    StartsWith(s[k], "Failed to create " \o filePath \o ": ")})

\* C29: scaffold never throws and attempts every generated file, also after
\* an earlier write failed: on return every generated file is accounted for
\* exactly once, in filesCreated or by one errors entry, and success is true
\* iff errors is empty.
C29_EveryFileAccounted ==
    scaffoldReturn # <<>> =>
        LET value == scaffoldReturn[1].value
        IN  /\ ~scaffoldReturn[1].rejected
            /\ \A i \in 1..Len(templateFiles) :
                   TimesIn(value.filesCreated, templateFiles[i].path)
                       + FailuresOf(value.errors, templateFiles[i].path) = 1
            /\ Len(value.filesCreated) + Len(value.errors) >= Len(templateFiles)
            /\ templateFiles # <<>> =>
                   Len(value.filesCreated) + Len(value.errors) = Len(templateFiles)
            /\ value.success <=> value.errors = <<>>

C29_Witness ==
    /\ scaffoldReturn # <<>>
    /\ scaffoldOptions[1].template = "full"
    /\ scaffoldReturn[1].value.errors
           = << "Failed to create mcp.json: EACCES: permission denied",
                "Failed to create src/index.ts: ENOSPC: no space left on device" >>
    /\ scaffoldReturn[1].value.filesCreated
           = << "mcp-tools.json", "package.json", "tsconfig.json",
                "src/resources.ts", "src/prompts.ts" >>
    /\ ~scaffoldReturn[1].value.success

(***************************************************************************)
(* Properties of DashboardPanel.                                           *)
(***************************************************************************)
UndisposedPanels == {i \in 1..Len(panels) : ~panels[i].disposed}

\* C30: across createOrShow, revive and dispose at most one undisposed panel
\* exists and currentPanel refers to it whenever one exists; createOrShow
\* creates a panel only when currentPanel is undefined and otherwise only
\* reveals the existing one.
C30_SinglePanel ==
    /\ Cardinality(UndisposedPanels) <= 1
    /\ UndisposedPanels # {} => (currentPanel # <<>> /\ currentPanel[1] \in UndisposedPanels)
    /\ (lastCall # <<>> /\ lastCall[1].method = "createOrShow") =>
           /\ lastCall[1].created <=> lastCall[1].revealed = <<>>
           /\ lastCall[1].revealed # <<>> => lastCall[1].revealed = currentPanel

====
